---- MODULE Spec2Model ----
(***************************************************************************)
(* Model of the DealLedger pattern-learning scraper:                       *)
(*   - the Pattern Knowledge Base (PatternDatabase) in its two variants,   *)
(*     the local JSON cache of dealledger_scraper_v4.py ("v4") and the     *)
(*     Supabase-backed one of unified_scraper.py ("unified");              *)
(*   - the per-site pagination loop (scrape_with_learning / scrape_page);  *)
(*   - the per-site driver scrape_broker and the run loop over brokers.    *)
(* Strings the code inspects character by character (host names) are       *)
(* sequences of one-character strings.                                     *)
(***************************************************************************)
EXTENDS Integers, Sequences, FiniteSets, TLC

VARIABLES
    impl,            \* which scraper file is running: "v4" or "unified"
    clock,           \* datetime.now(), a logical clock
    patterns,        \* PatternDatabase.patterns: ordered dict domain -> entry
    persisted,       \* pattern_cache.json content / scraper_patterns rows
    history,         \* scraper_history rows (unified only)
    kb_calls,        \* number of Knowledge Base operations issued so far
    kb_last,         \* the last operation called directly and what it returned
    kb_log,          \* record_success calls made by scrape_broker
    brokers,         \* the list of brokers of this run
    specialized_available, \* v4: SPECIALIZED_AVAILABLE, the optional import worked
    attempts,        \* ghost: the list indices of the brokers attempted so far
    idx,             \* index of the broker being scraped (or next to be)
    pc,              \* "idle" between brokers, "loop" in the pagination
                     \* loop, "returned" after it, "done" after the last broker
    cur_site,        \* what the current broker's site serves
    run,             \* locals of scrape_with_learning / scrape_page
    vertical_config, \* v4: whether a vertical filter is configured
    seen_ids,        \* self.seen_ids
    all_listings,    \* self.all_listings, the aggregated listing set
    stats,           \* self.stats
    failures,        \* FailureAnalyzer's records
    broker_results   \* v4: self.broker_results

kbvars == <<impl, clock, patterns, persisted, history, kb_calls, kb_last, kb_log>>
runvars == <<brokers, specialized_available, attempts, idx, pc, cur_site, run,
            vertical_config, seen_ids,
             all_listings, stats, failures, broker_results>>
vars == <<impl, clock, patterns, persisted, history, kb_calls, kb_last, kb_log,
          brokers, specialized_available, attempts, idx, pc, cur_site, run,
          vertical_config, seen_ids, all_listings, stats, failures,
          broker_results>>

(***************************************************************************)
(* Bounds                                                                  *)
(***************************************************************************)
MaxKBCalls == 2

(***************************************************************************)
(* Strings as character sequences                                          *)
(***************************************************************************)
WwwDot == <<"w", "w", "w", ".">>

HostA == <<"a", "b", "c", "d", ".", "c", "o">>
HostWwwA == WwwDot \o HostA
HostB == <<"x", "b", "c", "d", ".", "c", "o">>

\* str.replace('www.', ''): every non-overlapping occurrence, left to right
RECURSIVE ReplaceWww(_)
ReplaceWww(s) ==
    IF Len(s) < 4 THEN s
    ELSE IF SubSeq(s, 1, 4) = WwwDot THEN ReplaceWww(SubSeq(s, 5, Len(s)))
    ELSE <<Head(s)>> \o ReplaceWww(Tail(s))

\* urlparse(url).netloc.replace('www.', '')
DomainOf(url) == ReplaceWww(url.host)

(***************************************************************************)
(* Ordered dictionaries (Python dict keeps insertion order)                *)
(***************************************************************************)
Keys(d) == {d[i].key : i \in 1..Len(d)}
HasKey(d, k) == k \in Keys(d)
IndexOf(d, k) == CHOOSE i \in 1..Len(d) : d[i].key = k
Get(d, k) == d[IndexOf(d, k)].val
Put(d, k, v) ==
    IF HasKey(d, k) THEN [d EXCEPT ![IndexOf(d, k)].val = v]
    ELSE Append(d, [key |-> k, val |-> v])

\* Optional values: None is the empty sequence, a value v is <<v>>
None == <<>>
Some(v) == <<v>>

\* F applied to the value of v, v being evaluated once
Strict(v, F(_)) == CHOOSE r \in {F(x) : x \in {v}} : TRUE

\* dict.get(domain)
Lookup(d, k) == IF HasKey(d, k) THEN Some(Get(d, k)) ELSE None

\* success_count of a domain, an absent entry counting as 0
CountOf(d, k) == IF HasKey(d, k) THEN Get(d, k).success_count ELSE 0
TotalOf(d, k) == IF HasKey(d, k) THEN Get(d, k).total_listings ELSE 0

(***************************************************************************)
(* PatternDatabase                                                         *)
(***************************************************************************)
NewEntry(sig, now) ==
    [pattern |-> sig, success_count |-> 0, total_listings |-> 0,
     first_seen |-> now, last_used |-> now]

\* variant: the entry is re-created on every call, existing or not
RecordMemV4Recreate(pats, url, sig, n, now) ==
    LET domain == DomainOf(url)
        e == NewEntry(sig, now)
    IN Put(pats, domain, [e EXCEPT !.success_count = @ + 1,
                                   !.total_listings = @ + n])

\* v4 record_success, the in-memory part (lines 227-239)
RecordMemV4(pats, url, sig, n, now) ==
    LET domain == DomainOf(url)
        p1 == IF HasKey(pats, domain) THEN pats
              ELSE Put(pats, domain, NewEntry(sig, now))
        e == Get(p1, domain)
    IN Put(p1, domain, [e EXCEPT !.pattern = sig,
                                 !.success_count = @ + 1,
                                 !.total_listings = @ + n,
                                 !.last_used = now])

\* v4 save(): json.dump of the whole dict; an exception is caught and printed
\* The store is [valid, data]: valid is FALSE for a file that is not JSON
\* (open(..., 'w') truncated it and json.dump did not complete).
SaveV4(file, pats, outcome) ==
    CASE outcome = "ok" -> [valid |-> TRUE, data |-> pats]
      [] outcome = "open_fails" -> file
      [] outcome = "write_fails" -> [valid |-> FALSE, data |-> <<>>]

\* v4 load(): json.load, {} when the file is missing or unreadable
LoadV4(file) == IF file.valid THEN file.data ELSE <<>>

\* unified record_success, the in-memory part (lines 170-179)
RecordMemUnified(pats, url, sig, n, now) ==
    LET domain == DomainOf(url)
        p1 == IF HasKey(pats, domain) THEN pats
              ELSE Put(pats, domain, NewEntry(sig, now))
        e == Get(p1, domain)
    IN Put(p1, domain, [e EXCEPT !.success_count = @ + 1,
                                 !.total_listings = @ + n])

\* unified: upsert into scraper_patterns on conflict with the domain; the
\* counts written are the in-memory counts plus this call (lines 155-161).
\* first_seen is not part of the upsert: a new row gets the column default.
UpsertRow(store, pats, url, sig, n, now) ==
    LET domain == DomainOf(url)
        rows == store.data
        old == IF HasKey(rows, domain) THEN Get(rows, domain)
               ELSE NewEntry(sig, now)
    IN [store EXCEPT !.data =
           Put(rows, domain, [old EXCEPT !.pattern = sig,
                                         !.success_count = CountOf(pats, domain) + 1,
                                         !.total_listings = TotalOf(pats, domain) + n,
                                         !.last_used = now])]

\* unified: insert into scraper_history (lines 163-168)
InsertHistory(hist, url, sig, n, now) ==
    Append(hist, [domain |-> DomainOf(url), pattern_signature |-> sig,
                  listings_count |-> n, scraped_at |-> now])

\* unified load(): one entry per row; an exception leaves patterns empty
LoadUnified(store, ok) == IF ok THEN store.data ELSE <<>>

SaveOutcomes == {"ok", "open_fails", "write_fails"}
StoreOutcomes == {"ok", "upsert_fails", "insert_fails"}
Outcomes(i) == IF i = "v4" THEN SaveOutcomes ELSE StoreOutcomes

\* variant: the storage call without its try/except
SaveRaisesUncaught(outcome) == outcome # "ok"

\* save() (v4) and record_success (unified) wrap the storage calls in
\* try/except Exception: a failing store never raises to the caller
SaveRaises(outcome) == FALSE

\* record_success as a whole: the new in-memory dict, the new persisted
\* state, and whether an exception escapes to the caller
RecordSuccess(i, pats, store, hist, url, sig, n, now, outcome) ==
    IF i = "v4" THEN
        LET p == RecordMemV4(pats, url, sig, n, now)
        IN [patterns |-> p, persisted |-> SaveV4(store, p, outcome),
            history |-> hist, raised |-> SaveRaises(outcome)]
    ELSE
        CASE outcome = "upsert_fails" ->
                [patterns |-> pats, persisted |-> store, history |-> hist,
                 raised |-> SaveRaises(outcome)]
          [] outcome = "insert_fails" ->
                [patterns |-> pats,
                 persisted |-> UpsertRow(store, pats, url, sig, n, now),
                 history |-> hist, raised |-> SaveRaises(outcome)]
          [] outcome = "ok" ->
                [patterns |-> RecordMemUnified(pats, url, sig, n, now),
                 persisted |-> UpsertRow(store, pats, url, sig, n, now),
                 history |-> InsertHistory(hist, url, sig, n, now),
                 raised |-> SaveRaises(outcome)]

\* get_pattern_for_domain
GetPatternForDomain(pats, domain) == Lookup(pats, domain)

(***************************************************************************)
(* predict_pattern: trigram similarity of host names                       *)
(***************************************************************************)
\* trigrams(s): set(s[i:i+3] for i in range(len(s)-2))
Trigrams(s) == {SubSeq(s, i, i + 2) : i \in 1..(Len(s) - 2)}

\* _domain_similarity as the fraction num/den (0/1 when a set is empty)
DomainSimilarity(d1, d2) ==
    LET t1 == Trigrams(d1)
        t2 == Trigrams(d2)
    IN IF t1 = {} \/ t2 = {} THEN [num |-> 0, den |-> 1]
       ELSE [num |-> Cardinality(t1 \cap t2), den |-> Cardinality(t1 \cup t2)]

\* a > b for fractions
FracGt(a, b) == a.num * b.den > b.num * a.den

\* similarity > 0.3
SimilarityThreshold == [num |-> 3, den |-> 10]

\* list.sort(key=similarity, reverse=True) is stable: insert x after every
\* element whose similarity is >= x's
RECURSIVE InsertBySim(_, _)
InsertBySim(sorted, x) ==
    IF sorted = <<>> THEN <<x>>
    ELSE IF FracGt(x.sim, Head(sorted).sim) THEN <<x>> \o sorted
    ELSE <<Head(sorted)>> \o InsertBySim(Tail(sorted), x)

RECURSIVE SortBySim(_, _)
SortBySim(done, todo) ==
    IF todo = <<>> THEN done
    ELSE SortBySim(InsertBySim(done, Head(todo)), Tail(todo))

\* _find_similar_domains without the sort by similarity
FindSimilarDomainsUnsorted(pats, target) ==
    LET all == [i \in 1..Len(pats) |->
                   [domain |-> pats[i].key,
                    sim |-> DomainSimilarity(target, pats[i].key)]]
    IN SelectSeq(all, LAMBDA x : FracGt(x.sim, SimilarityThreshold))

\* _find_similar_domains
FindSimilarDomains(pats, target) ==
    LET all == [i \in 1..Len(pats) |->
                   [domain |-> pats[i].key,
                    sim |-> DomainSimilarity(target, pats[i].key)]]
        sims == SelectSeq(all, LAMBDA x : FracGt(x.sim, SimilarityThreshold))
    IN SortBySim(<<>>, sims)

TopK == 5

RECURSIVE ProdDen(_)
ProdDen(sims) == IF sims = <<>> THEN 1 ELSE Head(sims).sim.den * ProdDen(Tail(sims))

\* the accumulated weight of signature sig over the considered domains,
\* scaled by the product of the denominators so that it is an integer
RECURSIVE ScoreOf(_, _, _, _)
ScoreOf(pats, sims, sig, scale) ==
    IF sims = <<>> THEN 0
    ELSE LET x == Head(sims)
             e == Get(pats, x.domain)
             w == IF e.pattern = sig
                  THEN x.sim.num * e.success_count * (scale \div x.sim.den)
                  ELSE 0
         IN w + ScoreOf(pats, Tail(sims), sig, scale)

\* the keys of pattern_scores in insertion order
RECURSIVE ScoredSigs(_, _, _, _)
ScoredSigs(pats, sims, available, acc) ==
    IF sims = <<>> THEN acc
    ELSE LET sig == Get(pats, Head(sims).domain).pattern
             inAvail == \E i \in 1..Len(available) : available[i] = sig
             seen == \E i \in 1..Len(acc) : acc[i] = sig
         IN ScoredSigs(pats, Tail(sims), available,
                       IF inAvail /\ ~seen THEN Append(acc, sig) ELSE acc)

\* max(pattern_scores, key=pattern_scores.get): the first key with the
\* greatest score
RECURSIVE ArgMax(_, _, _, _)
ArgMax(pats, top, keys, best) ==
    IF keys = <<>> THEN best
    ELSE LET scale == ProdDen(top)
             k == Head(keys)
         IN ArgMax(pats, top, Tail(keys),
                   IF ScoreOf(pats, top, k, scale) > ScoreOf(pats, top, best, scale)
                   THEN k ELSE best)

\* predict_pattern without the shortcut for a known domain
PredictPatternSimilarOnly(pats, url, available) ==
    LET similar == FindSimilarDomains(pats, DomainOf(url))
        top == SubSeq(similar, 1, IF Len(similar) < TopK THEN Len(similar) ELSE TopK)
        keys == ScoredSigs(pats, top, available, <<>>)
    IN IF keys # <<>> THEN Some(ArgMax(pats, top, Tail(keys), Head(keys)))
       ELSE None

PredictPattern(pats, url, available) ==
    Strict(FindSimilarDomains(pats, DomainOf(url)),
           LAMBDA similar :
              LET domain == DomainOf(url)
                  top == SubSeq(similar, 1,
                                IF Len(similar) < TopK THEN Len(similar) ELSE TopK)
              IN IF HasKey(pats, domain) THEN Some(Get(pats, domain).pattern)
                 ELSE IF similar = <<>> THEN None
                 ELSE Strict(ScoredSigs(pats, top, available, <<>>),
                             LAMBDA keys :
                                IF keys # <<>>
                                THEN Some(ArgMax(pats, top, Tail(keys), Head(keys)))
                                ELSE None))

(***************************************************************************)
(* Inputs                                                                  *)
(***************************************************************************)
Impls == {"v4", "unified"}
Sigs == {"sigA", "sigB"}
Hosts == {HostWwwA, HostB}
Counts == {1, 2}
MkUrl(h, k, n) == [host |-> h, kind |-> k, n |-> n]

StoredEntry(sig, c, t) ==
    [pattern |-> sig, success_count |-> c, total_listings |-> t,
     first_seen |-> 0, last_used |-> 0]

\* what the persistent store can hold when the program starts
InitialStores ==
    { [valid |-> TRUE, data |-> <<>>],
      [valid |-> TRUE, data |-> <<[key |-> HostA, val |-> StoredEntry("sigA", 1, 2)]>>],
      [valid |-> TRUE, data |-> <<[key |-> HostB, val |-> StoredEntry("sigB", 2, 3)]>>],
      [valid |-> TRUE, data |-> <<[key |-> HostB, val |-> StoredEntry("sigB", 1, 1)],
                                  [key |-> HostA, val |-> StoredEntry("sigA", 1, 1)]>>],
      [valid |-> FALSE, data |-> <<>>] }

\* PatternDatabase.__init__: patterns = {} then load()
LoadPatterns(i, store, ok) ==
    IF i = "v4" THEN LoadV4(store) ELSE LoadUnified(store, ok)

(***************************************************************************)
(* Pages, links and listings as the scraper sees them                      *)
(***************************************************************************)
\* A URL is [host, kind, n]: kind "plain" has no page number, "query" is
\* ...?page=n, "path" is .../page/n, "item" is a listing's own URL.
\* A listing is what SmartExtractor.extract returned for one element:
\* its url and the features of its text that the filters test.
TextBiz == [re |-> FALSE, biz |-> TRUE, incl |-> TRUE, excl |-> FALSE]
TextRealEstate == [re |-> TRUE, biz |-> TRUE, incl |-> TRUE, excl |-> FALSE]
TextPlain == [re |-> FALSE, biz |-> FALSE, incl |-> FALSE, excl |-> FALSE]
TextExcluded == [re |-> FALSE, biz |-> TRUE, incl |-> TRUE, excl |-> TRUE]

\* hashlib.md5(source_url.encode()).hexdigest(): one digest per URL
Md5(url) == [md5 |-> url]

Listing(host, k, text) == [url |-> MkUrl(host, "item", k), text |-> text]

\* urljoin(current_url, href) for an href relative to the site
UrlJoin(current_url, href) ==
    [host |-> current_url.host, kind |-> href.kind, n |-> href.n]

\* _find_next_page without the pagination selectors: only the page number
\* of the URL is incremented
FindNextPageIgnoresLink(page, current_url) ==
    IF current_url.kind = "query"
    THEN Some([current_url EXCEPT !.n = @ + 1])
    ELSE IF current_url.kind = "path"
         THEN Some([current_url EXCEPT !.n = @ + 1])
    ELSE None

\* _find_next_page: the first pagination selector with an href, else the
\* page= number of the query incremented, else the /page/ number of the path
FindNextPage(page, current_url) ==
    IF page.href # None THEN Some(UrlJoin(current_url, page.href[1]))
    ELSE IF current_url.kind = "query"
         THEN Some([current_url EXCEPT !.n = @ + 1])
    ELSE IF current_url.kind = "path"
         THEN Some([current_url EXCEPT !.n = @ + 1])
    ELSE None

max_pages == 100
EmptyThreshold == 3

\* the listings SmartExtractor yields for the pattern with this signature
RECURSIVE ListingsOfSig(_, _)
ListingsOfSig(pats, sig) ==
    IF pats = <<>> THEN <<>>
    ELSE IF Head(pats).signature = sig /\ Head(pats).listings # <<>>
         THEN Head(pats).listings
    ELSE ListingsOfSig(Tail(pats), sig)

\* the cached-pattern attempt on the first page: the listings added and
\* pattern_used
CachedAttempt(pats, cached) ==
    LET ls == ListingsOfSig(pats, cached.pattern)
    IN IF ls # <<>> THEN [listings |-> ls, pattern_used |-> Some(cached.pattern)]
       ELSE [listings |-> <<>>, pattern_used |-> None]

\* patterns.remove(p); patterns.insert(0, p) for the predicted signature
MoveToFront(pats, sig) ==
    IF \E i \in 1..Len(pats) : pats[i].signature = sig
    THEN LET i == CHOOSE j \in 1..Len(pats) :
                      /\ pats[j].signature = sig
                      /\ \A k \in 1..(j - 1) : pats[k].signature # sig
         IN <<pats[i]>> \o SubSeq(pats, 1, i - 1) \o SubSeq(pats, i + 1, Len(pats))
    ELSE pats

TryLimit == 3

\* variant without the break: every candidate that yields is taken
RECURSIVE FirstYieldingNoBreak(_)
FirstYieldingNoBreak(pats) ==
    IF pats = <<>> THEN [listings |-> <<>>, pattern_used |-> None]
    ELSE LET rest == FirstYieldingNoBreak(Tail(pats))
         IN IF Head(pats).listings # <<>>
            THEN [listings |-> Head(pats).listings \o rest.listings,
                  pattern_used |-> IF rest.pattern_used # None
                                   THEN rest.pattern_used
                                   ELSE Some(Head(pats).signature)]
            ELSE rest

\* for pattern in patterns[:3]: the first one that yields listings
RECURSIVE FirstYielding(_)
FirstYielding(pats) ==
    IF pats = <<>> THEN [listings |-> <<>>, pattern_used |-> None]
    ELSE IF Head(pats).listings # <<>>
         THEN [listings |-> Head(pats).listings,
               pattern_used |-> Some(Head(pats).signature)]
    ELSE FirstYielding(Tail(pats))

Prefix(seq, k) == SubSeq(seq, 1, IF Len(seq) < k THEN Len(seq) ELSE k)

SigsOf(pats) == [i \in 1..Len(pats) |-> pats[i].signature]

\* detection on one page (lines 659-691): reorder by the prediction on the
\* first page, then try the first three candidates
DetectAttempt(kb, url, pats, first_page) ==
    Strict(IF first_page THEN PredictPattern(kb, url, SigsOf(pats)) ELSE None,
           LAMBDA predicted :
              LET ordered == IF predicted # None
                             THEN MoveToFront(pats, predicted[1]) ELSE pats
              IN Strict(FirstYielding(Prefix(ordered, TryLimit)),
                        LAMBDA r :
                           [listings |-> r.listings,
                            pattern_used |-> r.pattern_used,
                            predicted |-> predicted # None]))

\* the consecutive-empty-page counter after a page that added k listings
NextConsecutiveEmpty(consecutive_empty, k) ==
    IF k = 0 THEN consecutive_empty + 1 ELSE 0

\* variant: the cap compared with <= (one page too many)
WhileCondInclusive(pages_scraped) == pages_scraped <= max_pages

\* while pages_scraped < max_pages
WhileCond(pages_scraped) == pages_scraped < max_pages

\* variant: the cycle guard left out
NeverVisited(current_url, visited_urls) == FALSE

\* if current_url in visited_urls
AlreadyVisited(current_url, visited_urls) == current_url \in visited_urls

\* variant: continue instead of break on a visited URL
OnVisitedContinue(loc) == loc

\* ... then break
OnVisited(loc) == [loc EXCEPT !.status = "returned", !.why = "visited"]

\* the ids of a list of extracted listings
IdsOf(listings) == {Md5(listings[i].url) : i \in 1..Len(listings)}

\* history, not a local of the program: how many pages in a row gave no
\* listing that an earlier page of this site had not given already
NextNoNewPages(no_new_pages, before, got) ==
    IF IdsOf(got) \subseteq IdsOf(before) THEN no_new_pages + 1 ELSE 0

\* variant: the cached signature is tried on every page
ExtractPageCachedAlways(kb, url, loc, page) ==
    LET cached == GetPatternForDomain(kb, DomainOf(url))
    IN Strict(IF cached # None
              THEN CachedAttempt(page.patterns, cached[1])
              ELSE [listings |-> <<>>, pattern_used |-> None],
              LAMBDA c :
                 IF c.pattern_used # None
                 THEN [listings |-> c.listings, pattern_used |-> c.pattern_used,
                       predicted |-> FALSE, detected |-> FALSE]
                 ELSE IF page.patterns = <<>>
                 THEN [listings |-> <<>>, pattern_used |-> None,
                       predicted |-> FALSE, detected |-> TRUE]
                 ELSE Strict(DetectAttempt(kb, url, page.patterns,
                                           loc.pages_scraped = 0),
                             LAMBDA d :
                                [listings |-> d.listings,
                                 pattern_used |-> d.pattern_used,
                                 predicted |-> d.predicted, detected |-> TRUE]))

\* Extraction on one page (lines 638-691): the cached signature on the
\* first page of a known domain, else detection; detected is FALSE when the
\* cached signature gave the listings
ExtractPage(kb, url, loc, page) ==
    LET cached == GetPatternForDomain(kb, DomainOf(url))
    IN Strict(IF cached # None /\ loc.pages_scraped = 0
              THEN CachedAttempt(page.patterns, cached[1])
              ELSE [listings |-> <<>>, pattern_used |-> None],
              LAMBDA c :
                 IF c.pattern_used # None
                 THEN [listings |-> c.listings, pattern_used |-> c.pattern_used,
                       predicted |-> FALSE, detected |-> FALSE]
                 ELSE IF page.patterns = <<>>
                 THEN [listings |-> <<>>, pattern_used |-> None,
                       predicted |-> FALSE, detected |-> TRUE]
                 ELSE Strict(DetectAttempt(kb, url, page.patterns,
                                           loc.pages_scraped = 0),
                             LAMBDA d :
                                [listings |-> d.listings,
                                 pattern_used |-> d.pattern_used,
                                 predicted |-> d.predicted, detected |-> TRUE]))

\* the rest of the iteration (lines 693-710), got being what ExtractPage gave
AfterExtract(loc, page, got) ==
    LET r2 == [loc EXCEPT !.pattern_used = got.pattern_used,
                          !.all_listings = @ \o got.listings,
                          !.no_new_pages =
                              NextNoNewPages(@, loc.all_listings, got.listings),
                          !.ml_used = @ \/ got.predicted]
        ce == NextConsecutiveEmpty(loc.consecutive_empty, Len(got.listings))
        next_url == FindNextPage(page, loc.current_url)
    IN IF got.detected /\ page.patterns = <<>>
       THEN [loc EXCEPT !.pattern_used = None,
                        !.status = "returned", !.why = "no_patterns"]
       ELSE IF got.pattern_used = None
       THEN [r2 EXCEPT !.status = "returned", !.why = "no_listings"]
       ELSE IF ce >= EmptyThreshold
       THEN [r2 EXCEPT !.consecutive_empty = ce,
                       !.status = "returned", !.why = "empty_pages"]
       ELSE IF next_url = None
       THEN [r2 EXCEPT !.consecutive_empty = ce, !.pages_scraped = @ + 1,
                       !.status = "returned", !.why = "no_next"]
       ELSE [r2 EXCEPT !.consecutive_empty = ce, !.pages_scraped = @ + 1,
                       !.current_url = next_url[1]]

\* One iteration of the while loop of scrape_with_learning / scrape_page.
\* loc holds the locals; goto_fails: page.goto raises; page is the fetched
\* page; the result has status "loop" (next iteration) or "returned" (break).
LoopBody(kb, url, loc, page, goto_fails) ==
    IF AlreadyVisited(loc.current_url, loc.visited_urls)
    THEN OnVisited(loc)
    ELSE IF loc.pages_scraped > 0 /\ goto_fails
    THEN [loc EXCEPT !.visited_urls = @ \cup {loc.current_url},
                     !.status = "returned", !.why = "goto_failed"]
    ELSE Strict([loc EXCEPT !.visited_urls = @ \cup {loc.current_url},
                            !.fetched = IF loc.pages_scraped > 0
                                        THEN Append(@, loc.current_url) ELSE @],
                LAMBDA r1 :
                    Strict(ExtractPage(kb, url, r1, page),
                           LAMBDA got : AfterExtract(r1, page, got)))

\* no pagination loop is running
NoRun ==
    [all_listings |-> <<>>, pages_scraped |-> 0, current_url |-> MkUrl(<<>>, "plain", 0),
     visited_urls |-> {}, consecutive_empty |-> 0, pattern_used |-> None,
     fetched |-> <<>>, ml_used |-> FALSE, no_new_pages |-> 0,
     status |-> "none", why |-> ""]

\* the locals of scrape_with_learning when it is entered
InitRun(url) ==
    [all_listings |-> <<>>, pages_scraped |-> 0, current_url |-> url,
     visited_urls |-> {}, consecutive_empty |-> 0, pattern_used |-> None,
     fetched |-> <<url>>, ml_used |-> FALSE, no_new_pages |-> 0,
     status |-> "loop", why |-> ""]

(***************************************************************************)
(* FailureAnalyzer                                                         *)
(***************************************************************************)
\* classify_failure with the captcha test before the status tests
ClassifyFailureHtmlFirst(i, error, http_status, html) ==
    IF html # None /\ html[1].len > 0
       /\ ("recaptcha" \in html[1].markers \/ "captcha" \in html[1].markers)
    THEN "CAPTCHA"
    ELSE IF http_status = Some(403) THEN "HTTP_403"
    ELSE IF http_status = Some(404) THEN "HTTP_404"
    ELSE IF http_status # None /\ http_status[1] >= 500 THEN "HTTP_500"
    ELSE IF "timeout" \in error \/ (i = "v4" /\ "timed out" \in error) THEN "TIMEOUT"
    ELSE IF "ssl" \in error \/ "certificate" \in error THEN "SSL_ERROR"
    ELSE IF "no pattern" \in error \/ (i = "v4" /\ "no business listings" \in error)
         THEN "NO_PATTERN"
    ELSE IF html # None /\ html[1].len > 0 /\ html[1].len < 10000
         THEN "JAVASCRIPT_HEAVY"
    ELSE "UNKNOWN"

\* error is the set of markers the lowercased error text contains, html is
\* None or Some([markers, len]), http_status is None or Some(code)
ClassifyFailure(i, error, http_status, html) ==
    IF http_status = Some(403) THEN "HTTP_403"
    ELSE IF http_status = Some(404) THEN "HTTP_404"
    ELSE IF http_status # None /\ http_status[1] >= 500 THEN "HTTP_500"
    ELSE IF "timeout" \in error \/ (i = "v4" /\ "timed out" \in error) THEN "TIMEOUT"
    ELSE IF "ssl" \in error \/ "certificate" \in error THEN "SSL_ERROR"
    ELSE IF html # None /\ html[1].len > 0
            /\ ("recaptcha" \in html[1].markers \/ "captcha" \in html[1].markers)
         THEN "CAPTCHA"
    ELSE IF "no pattern" \in error \/ (i = "v4" /\ "no business listings" \in error)
         THEN "NO_PATTERN"
    ELSE IF html # None /\ html[1].len > 0 /\ html[1].len < 10000
         THEN "JAVASCRIPT_HEAVY"
    ELSE "UNKNOWN"

\* log_failure: append one record
LogFailure(log, broker, failure_type, http_status, now) ==
    Append(log, [broker_url |-> broker.url, failure_type |-> failure_type,
                      http_status |-> http_status, failed_at |-> now])

\* failures_by_type[t] += 1 on a defaultdict(int)
Bump(d, k) == IF HasKey(d, k) THEN Put(d, k, Get(d, k) + 1) ELSE Put(d, k, 1)

(***************************************************************************)
(* Sites: what the fetch collaborator returns for a broker's URLs          *)
(***************************************************************************)
MaxLen == 2

\* A site serves pages 1..len with listings; what it serves beyond is its
\* tail: "nopatterns" (no repeating structure), "noextract" (a structure
\* whose elements give no listing), "dup" (the last page again) or "fresh"
\* (new listings on every page).  decoys is the number of candidates ranked
\* before the listing grid whose elements give no listing; twin: a second
\* structure, ranked after the grid, whose elements give a listing too.
\* nav is how pages are linked: "href" (a
\* next link on every page but the last), "cycle" (the last page links back
\* to the first), "incr" (no links: only the page number in the URL).
BaseSite ==
    [first |-> "ok", status |-> 200, nav |-> "href", len |-> 1,
     tail |-> "nopatterns", sig |-> "sigA", decoys |-> 0, twin |-> FALSE,
     texts |-> <<TextBiz, TextBiz>>, overlap |-> FALSE,
     gotofail |-> 0, raiseat |-> 0, err |-> {}, exhtml |-> None,
     file |-> "none"]

SmallHtml == Some([markers |-> {}, len |-> 500])

\* sites whose first fetch does not give a page
DeadSites ==
    {[BaseSite EXCEPT !.first = "status", !.status = c] : c \in {404, 503}}
    \cup {[BaseSite EXCEPT !.first = "noresp"]}
    \cup {[BaseSite EXCEPT !.first = "raise", !.err = {"timeout"}],
          [BaseSite EXCEPT !.first = "raise", !.exhtml = SmallHtml]}

\* sites that differ in what their listings are
ContentSites ==
    {[BaseSite EXCEPT !.len = MaxLen, !.overlap = TRUE, !.texts = t] :
        t \in {<<TextBiz, TextRealEstate>>, <<TextRealEstate, TextRealEstate>>,
               <<TextPlain, TextExcluded>>}}
    \cup {[BaseSite EXCEPT !.len = MaxLen, !.overlap = TRUE, !.decoys = 3,
                           !.sig = g] : g \in Sigs}
    \cup {[BaseSite EXCEPT !.len = MaxLen, !.twin = TRUE, !.decoys = d,
                           !.sig = g] : g \in Sigs, d \in {0, 2}}

\* sites that differ in how their pages are linked and where they end
LinkedSites(kind) ==
    IF kind = "plain"
    THEN {[BaseSite EXCEPT !.nav = v, !.len = l] :
             v \in {"href", "cycle"}, l \in 1..MaxLen}
         \cup {[BaseSite EXCEPT !.len = 0],
               [BaseSite EXCEPT !.len = MaxLen, !.gotofail = 2],
               [BaseSite EXCEPT !.len = MaxLen, !.raiseat = 1, !.err = {"ssl"}],
               [BaseSite EXCEPT !.len = MaxLen, !.raiseat = 2]}
    ELSE {[BaseSite EXCEPT !.nav = v, !.len = l, !.tail = t] :
             v \in {"href", "incr"}, l \in 0..MaxLen,
             t \in {"nopatterns", "noextract"}}
         \cup {[BaseSite EXCEPT !.nav = "incr", !.len = MaxLen, !.tail = t,
                                !.gotofail = f] :
                  t \in {"dup", "fresh"}, f \in {0, MaxLen + 2}}

\* v4 only: the first page links to a downloadable .csv/.xlsx file
FileSites ==
    {[BaseSite EXCEPT !.file = f, !.texts = <<TextBiz, TextExcluded>>] :
        f \in {"rows", "empty"}}

SitesFor(kind) == DeadSites \cup ContentSites \cup LinkedSites(kind) \cup FileSites

TextOf(site, m) == site.texts[IF m % 2 = 1 THEN 1 ELSE 2]

\* the listings the extractor yields from the listing grid of content page m
GridListings(site, host, m) ==
    <<Listing(ReplaceWww(host), m, TextOf(site, m))>>
    \o (IF site.overlap /\ m > 1
        THEN <<Listing(ReplaceWww(host), m - 1, TextOf(site, m - 1))>>
        ELSE <<>>)

DecoySigs == <<"decoy1", "decoy2", "decoy3">>
TwinSig(sig) == IF sig = "sigA" THEN "sigB" ELSE "sigA"
\* the second structure of a page, with the one listing its elements yield
Twin(site, host) ==
    IF site.twin
    THEN <<[signature |-> TwinSig(site.sig),
            listings |-> <<Listing(ReplaceWww(host), 0, TextBiz)>>]>>
    ELSE <<>>
Decoys(k) == [j \in 1..k |-> [signature |-> DecoySigs[j], listings |-> <<>>]]

\* the page served at url: the candidate patterns in rank order, each with
\* the listings its elements yield, and the next link
PageOf(site, url) ==
    LET n == url.n
        m == IF n <= site.len THEN n ELSE IF site.tail = "dup" THEN site.len ELSE n
        beyond == n > site.len
    IN [patterns |->
            IF beyond /\ site.tail = "nopatterns" THEN <<>>
            ELSE IF beyond /\ site.tail = "noextract"
                 THEN <<[signature |-> site.sig, listings |-> <<>>]>>
            ELSE Decoys(site.decoys)
                 \o <<[signature |-> site.sig,
                       listings |-> GridListings(site, url.host, m)]>>
                 \o Twin(site, url.host),
        href |->
            IF site.nav = "incr" THEN None
            ELSE IF n < site.len THEN Some([kind |-> url.kind, n |-> n + 1])
            ELSE IF site.nav = "cycle" /\ n = site.len
                 THEN Some([kind |-> url.kind, n |-> 1])
            ELSE None]

\* the rows _download_and_parse_file returns: row k has the URL
\* <file_url>#row<k>, the file being linked by an absolute URL on the host
\* without www
FileListings(site, host) ==
    IF site.file = "rows"
    THEN <<[url |-> MkUrl(ReplaceWww(host), "row", 1), text |-> site.texts[1]],
           [url |-> MkUrl(ReplaceWww(host), "row", 2), text |-> site.texts[2]]>>
    ELSE <<>>

(***************************************************************************)
(* scrape_broker: filtering, de-duplication, statistics                    *)
(***************************************************************************)
NoArgs == [sig |-> "", n |-> 0, outcome |-> ""]

ZeroStats ==
    [attempted |-> 0, success |-> 0, failed |-> 0, listings |-> 0,
     filtered_out |-> 0, ml_predictions_used |-> 0, new_patterns_learned |-> 0,
     failures_by_type |-> <<>>]

\* normalize_listing (v4) / the record built in scrape_broker (unified)
NormalizeListing(listing, broker, now) ==
    [id |-> Md5(listing.url), source_url |-> listing.url,
     broker_url |-> broker.url, first_seen |-> now]

\* matches_vertical: an exclude keyword rejects, else an include keyword
\* is required; everything matches when no vertical is configured
MatchesVertical(vconf, listing) ==
    IF ~vconf THEN TRUE
    ELSE IF listing.text.excl THEN FALSE
    ELSE listing.text.incl

\* which extracted listings pass the text filter of scrape_broker
Include(i, listing, pattern_used) ==
    IF i = "v4"
    THEN IF pattern_used THEN ~listing.text.re ELSE listing.text.biz
    ELSE ~listing.text.re

\* a listing passes the filters that precede de-duplication
Passes(i, listing, pattern_used, vconf) ==
    /\ Include(i, listing, pattern_used)
    /\ i = "v4" => MatchesVertical(vconf, listing)

\* The loop over the listings returned by the pagination loop, in closed
\* form: listing k is appended iff it passes the filters, its id is not in
\* seen_ids, and no earlier listing of the list that passes has the same id
\* (that one put the id into seen_ids).  acc holds seen_ids and
\* all_listings; the result adds business_count and filtered_out.
Accept(i, listings, pattern_used, vconf, broker, now, acc) ==
    LET idx_seq == [k \in 1..Len(listings) |-> k]
        ok(k) == Passes(i, listings[k], pattern_used, vconf)
        taken(k) ==
            /\ ok(k)
            /\ Md5(listings[k].url) \notin acc.seen_ids
            /\ \A j \in 1..(k - 1) : ~(ok(j) /\ listings[j].url = listings[k].url)
        dropped == SelectSeq(idx_seq,
                       LAMBDA k : Include(i, listings[k], pattern_used) /\ ~ok(k))
    IN Strict(SelectSeq(idx_seq, taken),
              LAMBDA kept :
                 [seen_ids |-> acc.seen_ids
                      \cup {Md5(listings[kept[k]].url) : k \in 1..Len(kept)},
                  all_listings |-> acc.all_listings
                      \o [k \in 1..Len(kept) |->
                             NormalizeListing(listings[kept[k]], broker, now)],
                  business_count |-> Len(kept),
                  filtered_out |-> Len(dropped)])

\* the file-download branch of v4: every matched row counts, new or not
RECURSIVE AcceptFile(_, _, _, _)
AcceptFile(matched, broker, now, acc) ==
    IF matched = <<>> THEN acc
    ELSE
    LET normalized == NormalizeListing(Head(matched), broker, now)
        next == IF normalized.id \in acc.seen_ids THEN acc
                ELSE [acc EXCEPT !.seen_ids = @ \cup {normalized.id},
                                 !.all_listings = Append(@, normalized)]
    IN AcceptFile(Tail(matched), broker, now, next)

HttpLabel(status) ==
    IF status = None THEN "HTTP_error"
    ELSE CASE status[1] = 403 -> "HTTP_403"
           [] status[1] = 404 -> "HTTP_404"
           [] status[1] = 503 -> "HTTP_503"
           [] OTHER -> "HTTP_other"

\* a broker row; franchise: its name or URL holds one of the franchise
\* markers that run_async looks for
Broker(url) == [url |-> url, franchise |-> FALSE]
Franchise(url) == [url |-> url, franchise |-> TRUE]
UrlA == MkUrl(HostWwwA, "query", 1)
UrlA2 == MkUrl(HostA, "plain", 1)
UrlB == MkUrl(HostB, "plain", 1)
BrokerLists ==
    { <<Broker(UrlA), Broker(UrlA2)>>, <<Broker(UrlA), Broker(UrlB)>> }
\* lists that hold a franchise broker after a regular one
FranchiseLists ==
    { <<Broker(UrlA), Franchise(UrlA2)>> }

\* run_async: the partition into specialized_brokers and regular_brokers
IsSpecialized(broker, available) == available /\ broker.franchise

\* run_async: the order in which the brokers are scraped, as list indices:
\* phase 1 takes the specialized brokers, phase 2 the regular ones
RunOrder(brs, available) ==
    LET ixs == [k \in 1..Len(brs) |-> k]
    IN SelectSeq(ixs, LAMBDA k : IsSpecialized(brs[k], available))
       \o SelectSeq(ixs, LAMBDA k : ~IsSpecialized(brs[k], available))

\* the list index of the broker in turn, and that broker
CurIndex == RunOrder(brokers, specialized_available)[idx]
CurBroker == brokers[CurIndex]

\* what scrape_specialized_broker gives: rows, an empty list, or it raises
SpecializedOutcomes == {"rows", "excluded", "empty", "raise"}
SpecializedListings(outcome, host) ==
    IF outcome = "rows"
    THEN <<Listing(ReplaceWww(host), 1, TextBiz),
           Listing(ReplaceWww(host), 2, TextExcluded),
           Listing(ReplaceWww(host), 1, TextBiz)>>
    ELSE IF outcome = "excluded"
    THEN <<Listing(ReplaceWww(host), 2, TextExcluded)>>
    ELSE <<>>

MainStores ==
    { [valid |-> TRUE, data |-> <<>>],
      [valid |-> TRUE, data |-> <<[key |-> HostA, val |-> StoredEntry("sigB", 1, 2)]>>] }

Init ==
    /\ impl \in Impls
    /\ clock = 1
    /\ persisted \in MainStores
    /\ patterns = LoadPatterns(impl, persisted, TRUE)
    /\ history = <<>>
    /\ kb_calls = 0
    /\ kb_last = [op |-> "init", domain |-> <<>>, args |-> NoArgs,
                  raised |-> FALSE, result |-> None]
    /\ kb_log = <<>>
    /\ specialized_available \in (IF impl = "v4" THEN BOOLEAN ELSE {FALSE})
    /\ brokers \in (IF specialized_available THEN FranchiseLists ELSE BrokerLists)
    /\ attempts = <<>>
    /\ idx = 1
    /\ pc = "idle"
    /\ cur_site = BaseSite
    /\ run = NoRun
    /\ vertical_config \in (IF impl = "v4" THEN BOOLEAN ELSE {FALSE})
    /\ seen_ids = {}
    /\ all_listings = <<>>
    /\ stats = ZeroStats
    /\ failures = <<>>
    /\ broker_results = <<>>

\* the broker is finished: on to the next one
\* a failed site ends the run: its exception leaves the loop over the brokers
NextBrokerStopOnFailure ==
    /\ idx' = idx + 1
    /\ pc' = IF idx + 1 > Len(brokers) \/ stats'.failed > stats.failed
             THEN "done" ELSE "idle"
    /\ cur_site' = BaseSite
    /\ run' = NoRun

NextBroker ==
    /\ idx' = idx + 1
    /\ pc' = IF idx + 1 > Len(brokers) THEN "done" ELSE "idle"
    /\ cur_site' = BaseSite
    /\ run' = NoRun

Result(status, n, method) ==
    [url |-> CurBroker.url, status |-> status, listings |-> n, method |-> method]

\* variant: the except branch without stats['failed'] += 1
ExceptBranchUncounted(st, error, http_status, html) ==
    LET ftype == ClassifyFailure(impl, error, http_status,
                                 IF impl = "v4" THEN html ELSE None)
    IN /\ failures' = LogFailure(failures, CurBroker, ftype, http_status, clock)
       /\ stats' = [st EXCEPT !.failures_by_type = Bump(@, ftype)]
       /\ broker_results' = IF impl = "v4"
                            THEN Append(broker_results, Result("failed", 0, "none"))
                            ELSE broker_results

\* the except branch of scrape_broker; st is the statistics so far
ExceptBranch(st, error, http_status, html) ==
    LET ftype == ClassifyFailure(impl, error, http_status,
                                 IF impl = "v4" THEN html ELSE None)
    IN /\ failures' = LogFailure(failures, CurBroker, ftype, http_status, clock)
       /\ stats' = [st EXCEPT !.failures_by_type = Bump(@, ftype),
                              !.failed = @ + 1]
       /\ broker_results' = IF impl = "v4"
                            THEN Append(broker_results, Result("failed", 0, "none"))
                            ELSE broker_results

\* scrape_broker up to the call of the pagination loop
StartBroker(site) ==
    LET broker == CurBroker
        st == [stats EXCEPT !.attempted = @ + 1]
        rows == FileListings(site, broker.url.host)
        matched == SelectSeq(rows, LAMBDA l : MatchesVertical(vertical_config, l))
        acc == AcceptFile(matched, broker, clock,
                          [seen_ids |-> seen_ids, all_listings |-> all_listings])
    IN
    /\ pc = "idle"
    /\ idx <= Len(brokers)
    /\ site \in SitesFor(broker.url.kind)
    /\ clock' = clock + 1
    /\ ~IsSpecialized(broker, specialized_available)
    /\ attempts' = Append(attempts, CurIndex)
    /\ UNCHANGED <<impl, patterns, persisted, history, kb_calls, kb_last, kb_log,
                   brokers, specialized_available, vertical_config>>
    /\ CASE site.first = "raise" ->
              /\ ExceptBranch(st, site.err, None, site.exhtml)
              /\ NextBroker
              /\ UNCHANGED <<seen_ids, all_listings>>
         [] site.first \in {"status", "noresp"} ->
              LET status == IF site.first = "noresp" THEN None ELSE Some(site.status)
              IN /\ stats' = [st EXCEPT !.failed = @ + 1,
                                        !.failures_by_type = Bump(@, HttpLabel(status))]
                 /\ failures' = IF impl = "v4"
                                THEN LogFailure(failures, broker, HttpLabel(status),
                                                status, clock)
                                ELSE failures
                 /\ broker_results' = IF impl = "v4"
                                      THEN Append(broker_results, Result("failed", 0, "none"))
                                      ELSE broker_results
                 /\ NextBroker
                 /\ UNCHANGED <<seen_ids, all_listings>>
         [] site.first = "ok" /\ impl = "v4" /\ rows # <<>> ->
              /\ seen_ids' = acc.seen_ids
              /\ all_listings' = acc.all_listings
              /\ stats' = [st EXCEPT !.filtered_out = @ + Len(rows) - Len(matched),
                                     !.success = @ + 1,
                                     !.listings = @ + Len(matched)]
              /\ broker_results' = Append(broker_results,
                                          Result("success", Len(matched), "file_download"))
              /\ NextBroker
              /\ UNCHANGED failures
         [] OTHER ->
              /\ stats' = st
              /\ pc' = "loop"
              /\ cur_site' = site
              /\ run' = InitRun(broker.url)
              /\ UNCHANGED <<idx, seen_ids, all_listings, failures, broker_results>>

\* run_async, phase 1: one specialized broker
ScrapeSpecialized(outcome) ==
    LET broker == CurBroker
        st == [stats EXCEPT !.attempted = @ + 1]
        listings == SpecializedListings(outcome, broker.url.host)
        matched == SelectSeq(listings, LAMBDA l : MatchesVertical(vertical_config, l))
        acc == AcceptFile(matched, broker, clock,
                          [seen_ids |-> seen_ids, all_listings |-> all_listings])
    IN
    /\ pc = "idle"
    /\ idx <= Len(brokers)
    /\ IsSpecialized(broker, specialized_available)
    /\ outcome \in SpecializedOutcomes
    /\ attempts' = Append(attempts, CurIndex)
    /\ clock' = clock + 1
    /\ UNCHANGED <<impl, patterns, persisted, history, kb_calls, kb_last, kb_log,
                   brokers, specialized_available, vertical_config, failures,
                   broker_results>>
    /\ IF outcome = "raise" \/ listings = <<>> \/ matched = <<>>
       THEN /\ stats' = [st EXCEPT !.filtered_out = @ + Len(listings) - Len(matched),
                                   !.failed = @ + 1]
            /\ UNCHANGED <<seen_ids, all_listings>>
       ELSE /\ seen_ids' = acc.seen_ids
            /\ all_listings' = acc.all_listings
            /\ stats' = [st EXCEPT !.filtered_out = @ + Len(listings) - Len(matched),
                                   !.success = @ + 1,
                                   !.listings = @ + Len(matched)]
    /\ NextBroker

\* one iteration of the pagination loop, or an exception thrown in it
LoopStep ==
    /\ pc = "loop"
    /\ WhileCond(run.pages_scraped)
    /\ UNCHANGED <<impl, clock, patterns, persisted, history, kb_calls, kb_last,
                   kb_log, brokers, specialized_available, attempts,
                   vertical_config, seen_ids, all_listings>>
    /\ IF /\ cur_site.raiseat = run.pages_scraped + 1
          /\ run.current_url \notin run.visited_urls
       THEN /\ ExceptBranch([stats EXCEPT !.ml_predictions_used =
                                 @ + (IF run.ml_used /\ impl = "v4" THEN 1 ELSE 0)],
                            cur_site.err, Some(200), SmallHtml)
            /\ NextBroker
       ELSE /\ run' = Strict(PageOf(cur_site, run.current_url),
                             LAMBDA page :
                                LoopBody(patterns, CurBroker.url, run, page,
                                         cur_site.gotofail = run.pages_scraped + 1))
            /\ pc' = IF run'.status = "returned" THEN "returned" ELSE "loop"
            /\ UNCHANGED <<idx, cur_site, stats, failures, broker_results>>

\* the while condition fails: the page cap is reached
LoopExit ==
    /\ pc = "loop"
    /\ ~WhileCond(run.pages_scraped)
    /\ run' = [run EXCEPT !.status = "returned", !.why = "page_cap"]
    /\ pc' = "returned"
    /\ UNCHANGED <<impl, clock, patterns, persisted, history, kb_calls, kb_last,
                   kb_log, brokers, specialized_available, attempts, idx, cur_site,
                   vertical_config, seen_ids,
                   all_listings, stats, failures, broker_results>>

\* scrape_broker after the pagination loop returned (listings, pattern_sig)
FinishBroker(outcome) ==
    /\ pc = "returned"
    /\ outcome \in Outcomes(impl)
    /\ UNCHANGED <<impl, clock, kb_calls, kb_last, brokers, specialized_available,
                   attempts, vertical_config>>
    /\ \E acc \in {Accept(impl, run.all_listings, run.pattern_used # None,
                          vertical_config, CurBroker, clock,
                          [seen_ids |-> seen_ids, all_listings |-> all_listings])} :
        LET broker == CurBroker
            pattern_sig == run.pattern_used
            n == acc.business_count
            st0 == [stats EXCEPT !.filtered_out = @ + acc.filtered_out,
                                 !.ml_predictions_used =
                                     @ + (IF run.ml_used /\ impl = "v4" THEN 1 ELSE 0)]
            st1 == [st0 EXCEPT !.success = @ + 1, !.listings = @ + n]
        IN
        /\ seen_ids' = acc.seen_ids
        /\ all_listings' = acc.all_listings
        /\ IF n > 0 /\ pattern_sig # None
           THEN \E r \in {RecordSuccess(impl, patterns, persisted, history,
                                        broker.url, pattern_sig[1], n, clock,
                                        outcome)} :
                /\ patterns' = r.patterns
                /\ persisted' = r.persisted
                /\ history' = r.history
                /\ kb_log' = Append(kb_log, [site |-> CurIndex, url |-> broker.url,
                                             sig |-> pattern_sig[1], n |-> n,
                                             outcome |-> outcome,
                                             raised |-> r.raised])
                /\ IF r.raised
                   THEN ExceptBranch(st1, {}, Some(200), SmallHtml)
                   ELSE /\ stats' = [st1 EXCEPT !.new_patterns_learned =
                                         @ + (IF impl = "v4" THEN 1 ELSE 0)]
                        /\ broker_results' =
                              IF impl = "v4"
                              THEN Append(broker_results,
                                          Result("success", n, "pattern_detection"))
                              ELSE broker_results
                        /\ UNCHANGED failures
           ELSE /\ outcome = "ok"
                /\ UNCHANGED <<patterns, persisted, history, kb_log>>
                /\ IF n > 0
                   THEN /\ stats' = st1
                        /\ broker_results' =
                              IF impl = "v4"
                              THEN Append(broker_results,
                                          Result("success", n, "pattern_detection"))
                              ELSE broker_results
                        /\ UNCHANGED failures
                   ELSE /\ stats' = [st0 EXCEPT !.failed = @ + 1,
                                                !.failures_by_type =
                                                    Bump(@, "NO_PATTERN")]
                        /\ failures' = IF impl = "v4"
                                       THEN LogFailure(failures, broker,
                                                       "NO_PATTERN", None, clock)
                                       ELSE failures
                        /\ broker_results' =
                              IF impl = "v4"
                              THEN Append(broker_results,
                                          Result("failed", 0, "none"))
                              ELSE broker_results
    /\ NextBroker

Next ==
    \/ \E site \in SitesFor("plain") \cup SitesFor("query") : StartBroker(site)
    \/ \E o \in SpecializedOutcomes : ScrapeSpecialized(o)
    \/ LoopStep
    \/ LoopExit
    \/ \E o \in SaveOutcomes \cup StoreOutcomes : FinishBroker(o)

Spec == Init /\ [][Next]_vars

\* the run is one sequential coroutine: it always takes its next step
FairSpec == Spec /\ WF_vars(LoopStep) /\ WF_vars(LoopExit) /\ WF_vars(FinishBroker("ok"))

(***************************************************************************)
(* Claims about the pagination loop and scrape_broker (Spec, FairSpec)     *)
(***************************************************************************)
\* C1: after 3 consecutive pages that each yield no listing that is not a
\* duplicate of one already taken in this run, the loop has stopped.
C1_StopsAfterThreeStalePages ==
    (pc \in {"loop", "returned"} /\ run.no_new_pages >= EmptyThreshold)
        => run.status = "returned"

\* C2: the pagination loop processes at most 100 pages of a site:
\* pages_scraped never exceeds 100 and no 101st page is fetched.
C2_PageCap ==
    /\ run.pages_scraped <= max_pages
    /\ Len(run.fetched) <= max_pages

\* a site whose next page can always be derived was followed up to the cap
C2_Witness ==
    /\ pc = "returned"
    /\ run.why = "page_cap"
    /\ run.pages_scraped = max_pages
    /\ Len(run.fetched) = max_pages

\* C3: within one site's run no URL is fetched twice, and the loop stops
\* when the next URL is one already visited.
C3_NoRevisit ==
    /\ Cardinality({run.fetched[i] : i \in 1..Len(run.fetched)}) = Len(run.fetched)
    /\ \A i \in 1..Len(run.fetched) : run.fetched[i] \in run.visited_urls
                                          \/ (i = 1 /\ run.visited_urls = {})
    /\ (run.why = "visited" => run.status = "returned")

\* the last page of a site linked back to its first page and the loop stopped
C3_Witness ==
    /\ pc = "returned"
    /\ run.why = "visited"
    /\ Len(run.fetched) = MaxLen
    /\ run.current_url = run.fetched[1]

\* C4: the pagination loop of every site ends: the site reaches a terminal
\* state (success or failure recorded, next broker or end of run).
C4_SiteTerminates == (pc = "loop") ~> (pc \in {"idle", "done"})

\* a run is over whose first site was followed by page= increments up to
\* the cap, the 100th page giving a listing
C4_Witness ==
    /\ pc = "done"
    /\ stats.attempted = Len(brokers)
    /\ \E i \in 1..Len(all_listings) : all_listings[i].source_url.n = max_pages

\* C5: whenever scrape_broker accepts at least one listing from the
\* pagination loop, however the loop ended, record_success is called once
\* for that site with the signature of the site's listings and the count.
C5_RecordedOnSuccess ==
    [][(pc = "returned" /\ Len(all_listings') > Len(all_listings)) =>
          /\ Len(kb_log') = Len(kb_log) + 1
          /\ kb_log'[Len(kb_log')].site = CurIndex
          /\ kb_log'[Len(kb_log')].sig = cur_site.sig
          /\ kb_log'[Len(kb_log')].n = Len(all_listings') - Len(all_listings)]_vars

\* C10: when persisting fails, record_success does not raise: the site is
\* counted as a success and not as a failure, its listings stay in the
\* aggregated set, and the run goes on to the next site.
C10_PersistFailureTolerated ==
    [][(/\ pc = "returned"
        /\ Len(kb_log') = Len(kb_log) + 1
        /\ kb_log'[Len(kb_log')].outcome # "ok") =>
          LET c == kb_log'[Len(kb_log')]
          IN /\ ~c.raised
             /\ stats'.success = stats.success + 1
             /\ stats'.failed = stats.failed
             /\ failures' = failures
             /\ c.n > 0
             /\ Len(all_listings') = Len(all_listings) + c.n
             /\ SubSeq(all_listings', 1, Len(all_listings)) = all_listings
             /\ idx' = idx + 1
             /\ pc' = IF idx < Len(brokers) THEN "idle" ELSE "done"
             /\ impl = "v4" =>
                    broker_results'[Len(broker_results')].status = "success"]_vars

\* the first site's record_success could not persist, and the run went on
\* to scrape the second site successfully
C10_Witness ==
    /\ pc = "done"
    /\ Len(kb_log) = 2
    /\ kb_log[1].site = 1
    /\ kb_log[1].outcome # "ok"
    /\ kb_log[2].site = 2
    /\ stats.success = 2
    /\ stats.failed = 0

(***************************************************************************)
(* The Knowledge Base driven directly by its callers                       *)
(***************************************************************************)
KBInit ==
    /\ impl \in Impls
    /\ clock = 1
    /\ persisted \in InitialStores
    /\ impl = "unified" => persisted.valid
    /\ \E ok \in BOOLEAN : patterns = LoadPatterns(impl, persisted, ok)
    /\ history = <<>>
    /\ kb_calls = 0
    /\ kb_last = [op |-> "init", domain |-> <<>>, args |-> NoArgs,
                  raised |-> FALSE, result |-> None]
    /\ kb_log = <<>>
    /\ brokers = <<>>
    /\ specialized_available = FALSE
    /\ attempts = <<>>
    /\ idx = 1
    /\ pc = "done"
    /\ cur_site = BaseSite
    /\ run = NoRun
    /\ vertical_config = FALSE
    /\ seen_ids = {}
    /\ all_listings = <<>>
    /\ stats = ZeroStats
    /\ failures = <<>>
    /\ broker_results = <<>>

KBRecordSuccess(url, sig, n, outcome) ==
    LET r == RecordSuccess(impl, patterns, persisted, history, url, sig, n,
                           clock, outcome)
    IN /\ kb_calls < MaxKBCalls
       /\ outcome \in Outcomes(impl)
       /\ patterns' = r.patterns
       /\ persisted' = r.persisted
       /\ history' = r.history
       /\ clock' = clock + 1
       /\ kb_calls' = kb_calls + 1
       /\ kb_last' = [op |-> "record_success", domain |-> DomainOf(url),
                      args |-> [sig |-> sig, n |-> n, outcome |-> outcome],
                      raised |-> r.raised,
                      result |-> Lookup(r.patterns, DomainOf(url))]
       /\ UNCHANGED <<impl, kb_log>>
       /\ UNCHANGED runvars

KBLookup(domain) ==
    /\ kb_calls < MaxKBCalls
    /\ kb_calls' = kb_calls + 1
    /\ kb_last' = [op |-> "lookup", domain |-> domain, args |-> NoArgs,
                   raised |-> FALSE,
                   result |-> GetPatternForDomain(patterns, domain)]
    /\ clock' = clock + 1
    /\ UNCHANGED <<impl, patterns, persisted, history, kb_log>>
    /\ UNCHANGED runvars

KBPredict(url, available) ==
    /\ kb_calls < MaxKBCalls
    /\ kb_calls' = kb_calls + 1
    /\ kb_last' = [op |-> "predict", domain |-> DomainOf(url),
                   args |-> [available |-> available],
                   raised |-> FALSE,
                   result |-> LET r == PredictPattern(patterns, url, available)
                              IN IF r = None THEN None
                                 ELSE Some([pattern |-> r[1]])]
    /\ clock' = clock + 1
    /\ UNCHANGED <<impl, patterns, persisted, history, kb_log>>
    /\ UNCHANGED runvars

SigLists == {<<"sigA">>, <<"sigB", "sigA">>}

KBNext ==
    \/ \E h \in Hosts, sig \in Sigs, n \in Counts, o \in SaveOutcomes \cup StoreOutcomes :
           KBRecordSuccess(MkUrl(h, "plain", 0), sig, n, o)
    \/ \E h \in Hosts : KBLookup(ReplaceWww(h))
    \/ \E h \in Hosts, av \in SigLists : KBPredict(MkUrl(h, "plain", 0), av)

SpecKB == KBInit /\ [][KBNext]_vars

(***************************************************************************)
(* Claims about the Knowledge Base (SpecKB)                                *)
(***************************************************************************)
\* this step is a call of record_success
IsRecordStep == kb_calls' = kb_calls + 1 /\ kb_last'.op = "record_success"

\* C6: every call record_success(url, sig, n) creates or updates the entry of
\* the url's normalized domain, raising its success_count by exactly 1 and
\* its total_listings by exactly n, leaves every other entry unchanged, and
\* lookup of the domain returns the updated entry.
C6_EveryCallCounts ==
    [][IsRecordStep =>
         LET d == kb_last'.domain
         IN /\ Keys(patterns') = Keys(patterns) \cup {d}
            /\ CountOf(patterns', d) = CountOf(patterns, d) + 1
            /\ TotalOf(patterns', d) = TotalOf(patterns, d) + kb_last'.args.n
            /\ \A k \in Keys(patterns) \ {d} : Get(patterns', k) = Get(patterns, k)
            /\ GetPatternForDomain(patterns', d) = kb_last'.result
            /\ kb_last'.result # None]_vars

\* C7: in both implementations, after a record_success(url, sig, n) whose
\* persistence succeeded, the in-memory entry of the domain has pattern = sig
\* and last_used = the time of the call, also when the domain already had an
\* entry with another signature.
C7_LastWriteWins ==
    [][(IsRecordStep /\ kb_last'.args.outcome = "ok") =>
         LET d == kb_last'.domain
         IN /\ HasKey(patterns', d)
            /\ Get(patterns', d).pattern = kb_last'.args.sig
            /\ Get(patterns', d).last_used = clock]_vars

\* C8: after every record_success that completes with working storage, the
\* persisted entry of the domain has the same signature, success_count and
\* total_listings as the in-memory entry.
C8_WriteThrough ==
    [][(IsRecordStep /\ kb_last'.args.outcome = "ok") =>
         LET d == kb_last'.domain
         IN /\ persisted'.valid
            /\ HasKey(persisted'.data, d)
            /\ HasKey(patterns', d)
            /\ Get(persisted'.data, d).pattern = Get(patterns', d).pattern
            /\ Get(persisted'.data, d).success_count = Get(patterns', d).success_count
            /\ Get(persisted'.data, d).total_listings = Get(patterns', d).total_listings]_vars

\* C9: across record_success (also with failing persistence), lookup and
\* predict, no entry disappears and no domain's success_count decreases.
C9_SuccessCountMonotone ==
    [][\A d \in Keys(patterns) :
          /\ HasKey(patterns', d)
          /\ CountOf(patterns', d) >= CountOf(patterns, d)]_vars

\* a record_success whose persistence failed has acted on a domain that
\* already had successes, and lookups and predictions have been served
C9_Witness ==
    /\ kb_last.op = "record_success"
    /\ kb_last.args.outcome # "ok"
    /\ kb_calls = MaxKBCalls
    /\ Len(patterns) = 2
    /\ CountOf(patterns, HostB) >= 2

(***************************************************************************)
(* predict_pattern applied to Knowledge Bases of many similar domains      *)
(***************************************************************************)
\* domains around abcd.co, with their trigram similarity to it
DomCom == <<"a", "b", "c", "d", ".", "c", "o", "m">>                  \* 5/6
DomZab == <<"z">> \o HostA                                            \* 5/6
DomBcd == Tail(HostA)                                                 \* 4/5
DomIo == <<"a", "b", "c", "d", ".", "i", "o">>                        \* 3/7
DomC == <<"a", "b", "c", "d", ".", "c">>                              \* 4/5
DomStore == <<"a", "b", "c", "d", ".", "s", "t", "o", "r", "e">>      \* 3/10
DomAbcx == <<"a", "b", "c", "x", ".", "c", "o">>                      \* 1/4
DomShort == <<"a", "b">>                                              \* no trigram

\* the domains of self.patterns in insertion order
KeyOrders ==
    { <<>>,
      <<DomStore, DomAbcx, DomShort>>,
      <<HostB, DomIo>>,
      <<DomIo, DomStore, HostB, DomCom, DomC, DomZab, DomBcd>>,
      <<DomBcd, DomC, DomCom, DomIo, HostB, DomZab>>,
      <<DomCom, DomZab, HostA, DomIo>> }

\* how signatures and success counts are spread over the entries
SigSpreads == {"allA", "oddB", "firstB", "firstOther"}
CountSpreads == {"ones", "mixed"}

SigAt(spread, i) ==
    IF spread = "allA" THEN "sigA"
    ELSE IF spread = "oddB" THEN (IF i % 2 = 1 THEN "sigB" ELSE "sigA")
    ELSE IF spread = "firstB" THEN (IF i = 1 THEN "sigB" ELSE "sigA")
    ELSE (IF i = 1 THEN "sigOther" ELSE "sigA")

CountAt(spread, i) == IF spread = "ones" THEN 1 ELSE (i % 3) + 1

MkPatterns(keys, sigs, counts) ==
    [i \in 1..Len(keys) |->
        [key |-> keys[i],
         val |-> StoredEntry(SigAt(sigs, i), CountAt(counts, i), CountAt(counts, i))]]

PredictInit ==
    /\ impl \in Impls
    /\ clock = 1
    /\ \E keys \in KeyOrders, sigs \in SigSpreads, counts \in CountSpreads :
          /\ patterns = MkPatterns(keys, sigs, counts)
          /\ persisted = [valid |-> TRUE, data |-> patterns]
    /\ history = <<>>
    /\ kb_calls = 0
    /\ kb_last = [op |-> "init", domain |-> <<>>, args |-> NoArgs,
                  raised |-> FALSE, result |-> None]
    /\ kb_log = <<>>
    /\ brokers = <<>>
    /\ specialized_available = FALSE
    /\ attempts = <<>>
    /\ idx = 1
    /\ pc = "done"
    /\ cur_site = BaseSite
    /\ run = NoRun
    /\ vertical_config = FALSE
    /\ seen_ids = {}
    /\ all_listings = <<>>
    /\ stats = ZeroStats
    /\ failures = <<>>
    /\ broker_results = <<>>

PredictSigLists == SigLists \cup {<<>>, <<"sigB">>}

PredictNext ==
    \E h \in {HostWwwA, HostA, DomShort}, av \in PredictSigLists :
        KBPredict(MkUrl(h, "plain", 0), av)

SpecPredict == PredictInit /\ [][PredictNext]_vars

(***************************************************************************)
(* Claims about predict_pattern (SpecPredict)                              *)
(***************************************************************************)
\* this step is a call of predict_pattern
IsPredictStep == kb_calls' = kb_calls + 1 /\ kb_last'.op = "predict"

\* the known domains whose similarity to target is strictly above 0.30
AboveThreshold(pats, target) ==
    {d \in Keys(pats) : FracGt(DomainSimilarity(target, d), SimilarityThreshold)}

\* C is a choice of the 5 most similar domains of above
IsTopFive(C, above, target) ==
    /\ C \subseteq above
    /\ Cardinality(C) = (IF Cardinality(above) < TopK THEN Cardinality(above) ELSE TopK)
    /\ \A x \in C, y \in above \ C :
          ~FracGt(DomainSimilarity(target, y), DomainSimilarity(target, x))

\* the product of the denominators of the similarities of the domains in S
RECURSIVE DenProduct(_, _)
DenProduct(S, target) ==
    IF S = {} THEN 1
    ELSE LET d == CHOOSE x \in S : TRUE
         IN DomainSimilarity(target, d).den * DenProduct(S \ {d}, target)

\* the sum over the domains of C that store sig of similarity * success_count,
\* times scale (a multiple of every denominator)
RECURSIVE TotalScore(_, _, _, _, _)
TotalScore(pats, C, target, sig, scale) ==
    IF C = {} THEN 0
    ELSE LET d == CHOOSE x \in C : TRUE
             sim == DomainSimilarity(target, d)
             w == IF Get(pats, d).pattern = sig
                  THEN sim.num * (scale \div sim.den) * Get(pats, d).success_count
                  ELSE 0
         IN w + TotalScore(pats, C \ {d}, target, sig, scale)

\* C11: for a domain not in the Knowledge Base, predict scores the stored
\* signatures of the (at most) 5 most similar domains among those with
\* similarity > 0.30, counting only signatures that are candidates, each with
\* similarity * success_count, and returns a signature of highest total
\* score, or none when no domain contributed; a result is a candidate.
C11_PredictFromSimilar ==
    [][(IsPredictStep /\ ~HasKey(patterns, kb_last'.domain)) =>
         LET t == kb_last'.domain
             avs == kb_last'.args.available
             av == {avs[i] : i \in 1..Len(avs)}
             above == AboveThreshold(patterns, t)
             scale == DenProduct(above, t)
             res == kb_last'.result
         IN \E C \in SUBSET above :
               /\ IsTopFive(C, above, t)
               /\ LET contributing == {d \in C : Get(patterns, d).pattern \in av}
                  IN IF contributing = {} THEN res = None
                     ELSE /\ res # None
                          /\ res[1].pattern \in av
                          /\ res[1].pattern \in
                                {Get(patterns, d).pattern : d \in contributing}
                          /\ \A sig \in av :
                                TotalScore(patterns, C, t, sig, scale)
                                   <= TotalScore(patterns, C, t, res[1].pattern, scale)]_vars

\* a prediction was made from a Knowledge Base holding 6 domains above the
\* threshold and one exactly at it, and the less scored candidate lost
C11_Witness ==
    /\ kb_last.op = "predict"
    /\ kb_last.domain = HostA
    /\ ~HasKey(patterns, HostA)
    /\ Cardinality(AboveThreshold(patterns, HostA)) = TopK + 1
    /\ HasKey(patterns, DomStore)
    /\ kb_last.args.available = <<"sigB", "sigA">>
    /\ kb_last.result = Some([pattern |-> "sigA"])
    /\ \E d \in AboveThreshold(patterns, HostA) : Get(patterns, d).pattern = "sigB"


\* C12: for a URL whose normalized domain has an entry, predict returns that
\* entry's stored signature whatever the candidate signatures are (also when
\* the stored signature is not among them, or there are none).
C12_KnownDomainWins ==
    [][(IsPredictStep /\ HasKey(patterns, kb_last'.domain)) =>
          kb_last'.result =
              Some([pattern |-> Get(patterns, kb_last'.domain).pattern])]_vars

\* predict for www.abcd.co returned the stored sigB although the only
\* candidate was sigA, which more similar known domains store
C12_Witness ==
    /\ kb_last.op = "predict"
    /\ kb_last.domain = HostA
    /\ HasKey(patterns, HostA)
    /\ Get(patterns, HostA).pattern = "sigB"
    /\ kb_last.args.available = <<"sigA">>
    /\ kb_last.result = Some([pattern |-> "sigB"])
    /\ \E d \in Keys(patterns) \ {HostA} : Get(patterns, d).pattern = "sigA"


(***************************************************************************)
(* The Failure Analyzer driven directly by its callers                     *)
(***************************************************************************)
\* (error or "").lower(): the markers of an error text that is None or
\* Some(markers)
ErrorLower(error) == IF error = None THEN {} ELSE error[1]

\* the detail text that goes with a kind
DetailOf(kind) ==
    IF kind = "HTTP_403" THEN "Site blocking (403) - anti-bot protection"
    ELSE IF kind = "HTTP_404" THEN "Page not found (404) - URL may be outdated"
    ELSE IF kind = "HTTP_500" THEN "Server error"
    ELSE IF kind = "TIMEOUT" THEN "Connection timeout"
    ELSE IF kind = "SSL_ERROR" THEN "SSL certificate error"
    ELSE IF kind = "CAPTCHA" THEN "CAPTCHA protection detected"
    ELSE IF kind = "NO_PATTERN" THEN "Could not detect listing pattern"
    ELSE IF kind = "JAVASCRIPT_HEAVY" THEN "Minimal content - JavaScript-heavy"
    ELSE "Unknown: error[:200]"

\* classify_failure(error, http_status, html) as a call: the last return
\* slices error, which raises TypeError when error is None
ClassifyCall(i, error, http_status, html) ==
    LET kind == ClassifyFailure(i, ErrorLower(error), http_status, html)
    IN IF kind = "UNKNOWN" /\ error = None
       THEN [raised |-> TRUE, result |-> None]
       ELSE [raised |-> FALSE,
             result |-> Some([kind |-> kind, detail |-> DetailOf(kind)])]

LogOutcomes(i) == IF i = "v4" THEN {"ok"} ELSE {"ok", "insert_fails"}

\* log_failure(broker, failure_type, error_detail, http_status) as a call:
\* error_detail[:500] raises TypeError on None; unified builds the row and
\* inserts it inside try/except: pass
LogCall(i, log, broker, failure_type, error_detail, http_status, now, outcome) ==
    IF error_detail = None
    THEN [raised |-> (i = "v4"), failures |-> log]
    ELSE IF outcome # "ok"
    THEN [raised |-> FALSE, failures |-> log]
    ELSE [raised |-> FALSE,
          failures |-> LogFailure(log, broker, failure_type, http_status, now)]

ErrorTexts ==
    {None, Some({})}
    \cup {Some({m}) : m \in {"timeout", "timed out", "ssl", "certificate",
                             "no pattern", "no business listings"}}
    \cup {Some({"timeout", "ssl", "no pattern"})}

Statuses == {None, Some(200), Some(403), Some(404), Some(499), Some(500), Some(503)}

SmallLimit == 10000

Htmls ==
    {None, Some([markers |-> {}, len |-> 0])}
    \cup {Some([markers |-> m, len |-> l]) :
             m \in {{}, {"captcha"}, {"captcha", "recaptcha"}},
             l \in {SmallLimit - 1, SmallLimit}}

FAInit ==
    /\ impl \in Impls
    /\ clock = 1
    /\ patterns = <<>>
    /\ persisted = [valid |-> TRUE, data |-> <<>>]
    /\ history = <<>>
    /\ kb_calls = 0
    /\ kb_last = [op |-> "init", domain |-> <<>>, args |-> NoArgs,
                  raised |-> FALSE, result |-> None]
    /\ kb_log = <<>>
    /\ brokers = <<>>
    /\ specialized_available = FALSE
    /\ attempts = <<>>
    /\ idx = 1
    /\ pc = "done"
    /\ cur_site = BaseSite
    /\ run = NoRun
    /\ vertical_config = FALSE
    /\ seen_ids = {}
    /\ all_listings = <<>>
    /\ stats = ZeroStats
    /\ failures = <<>>
    /\ broker_results = <<>>

FAClassify(error, http_status, html) ==
    /\ kb_calls < MaxKBCalls
    /\ kb_calls' = kb_calls + 1
    /\ clock' = clock + 1
    /\ \E r \in {ClassifyCall(impl, error, http_status, html)} :
          kb_last' = [op |-> "classify", domain |-> <<>>,
                      args |-> [error |-> error, http_status |-> http_status,
                                html |-> html],
                      raised |-> r.raised, result |-> r.result]
    /\ UNCHANGED <<impl, patterns, persisted, history, kb_log>>
    /\ UNCHANGED runvars

FALog(broker, failure_type, error_detail, http_status, outcome) ==
    /\ kb_calls < MaxKBCalls
    /\ outcome \in LogOutcomes(impl)
    /\ kb_calls' = kb_calls + 1
    /\ clock' = clock + 1
    /\ \E r \in {LogCall(impl, failures, broker, failure_type, error_detail,
                         http_status, clock, outcome)} :
          /\ failures' = r.failures
          /\ kb_last' = [op |-> "log", domain |-> <<>>,
                         args |-> [failure_type |-> failure_type,
                                   error_detail |-> error_detail,
                                   http_status |-> http_status,
                                   outcome |-> outcome],
                         raised |-> r.raised, result |-> None]
    /\ UNCHANGED <<impl, patterns, persisted, history, kb_log>>
    /\ UNCHANGED <<brokers, specialized_available, attempts, idx, pc, cur_site, run,
                   vertical_config, seen_ids,
                   all_listings, stats, broker_results>>

FANext ==
    \/ \E e \in ErrorTexts, c \in Statuses, h \in Htmls : FAClassify(e, c, h)
    \/ \E t \in {"HTTP_404", "UNKNOWN"}, d \in {None, Some("detail")},
          c \in {None, Some(404)}, o \in {"ok", "insert_fails"} :
           FALog(Broker(UrlA), t, d, c, o)

SpecFA == FAInit /\ [][FANext]_vars

(***************************************************************************)
(* Claims about the Failure Analyzer (SpecFA)                              *)
(***************************************************************************)
\* this step is a call of classify_failure
IsClassifyStep == kb_calls' = kb_calls + 1 /\ kb_last'.op = "classify"

\* this step is a call of log_failure
IsLogStep == kb_calls' = kb_calls + 1 /\ kb_last'.op = "log"

\* the markers the implementation takes for a timeout / for no pattern
TimeoutMarkers(i) == IF i = "v4" THEN {"timeout", "timed out"} ELSE {"timeout"}
NoPatternMarkers(i) ==
    IF i = "v4" THEN {"no pattern", "no business listings"} ELSE {"no pattern"}

\* the rules in their order: rule k applies to the arguments a
RuleApplies(i, k, a) ==
    LET html == IF a.html # None /\ a.html[1].len > 0 THEN a.html ELSE None
    IN IF k = 1 THEN a.http_status = Some(403)
       ELSE IF k = 2 THEN a.http_status = Some(404)
       ELSE IF k = 3 THEN a.http_status # None /\ a.http_status[1] >= 500
       ELSE IF k = 4 THEN a.error[1] \cap TimeoutMarkers(i) # {}
       ELSE IF k = 5 THEN a.error[1] \cap {"ssl", "certificate"} # {}
       ELSE IF k = 6 THEN html # None
                          /\ html[1].markers \cap {"captcha", "recaptcha"} # {}
       ELSE IF k = 7 THEN a.error[1] \cap NoPatternMarkers(i) # {}
       ELSE IF k = 8 THEN html # None /\ html[1].len < SmallLimit
       ELSE TRUE

RuleKinds ==
    <<"HTTP_403", "HTTP_404", "HTTP_500", "TIMEOUT", "SSL_ERROR", "CAPTCHA",
      "NO_PATTERN", "JAVASCRIPT_HEAVY", "UNKNOWN">>

\* C13: classify_failure returns the kind of the first rule, in the order
\* 403, 404, >= 500, timeout, ssl/certificate, captcha in the HTML, no
\* pattern, HTML shorter than 10,000, unknown, that applies to its
\* arguments (error a text, status and HTML optional); every input with
\* status 403 is blocking by anti-bot protection.
C13_FirstMatchInOrder ==
    [][(IsClassifyStep /\ kb_last'.args.error # None) =>
         LET a == kb_last'.args
             k == CHOOSE j \in 1..Len(RuleKinds) :
                     /\ RuleApplies(impl, j, a)
                     /\ \A l \in 1..(j - 1) : ~RuleApplies(impl, l, a)
         IN /\ ~kb_last'.raised
            /\ kb_last'.result # None
            /\ kb_last'.result[1].kind = RuleKinds[k]
            /\ a.http_status = Some(403) =>
                  kb_last'.result[1].detail = DetailOf("HTTP_403")]_vars

\* a 403 whose error text has a timeout marker and whose HTML is small and
\* has a captcha marker was classified as blocking
C13_Witness ==
    /\ kb_last.op = "classify"
    /\ kb_last.args.http_status = Some(403)
    /\ kb_last.args.error = Some({"timeout", "ssl", "no pattern"})
    /\ kb_last.args.html = Some([markers |-> {"captcha"}, len |-> SmallLimit - 1])
    /\ kb_last.result = Some([kind |-> "HTTP_403", detail |-> DetailOf("HTTP_403")])

\* C14: classify_failure returns a (kind, detail) pair and log_failure
\* appends exactly one record, leaving the earlier ones unchanged, for every
\* input, absent error text, status and HTML included; neither raises.
C14_AnalyzerNeverRaises ==
    [][/\ IsClassifyStep => (~kb_last'.raised /\ kb_last'.result # None)
       /\ IsLogStep => /\ ~kb_last'.raised
                       /\ Len(failures') = Len(failures) + 1
                       /\ SubSeq(failures', 1, Len(failures)) = failures]_vars


(***************************************************************************)
(* Claims about the run over the list of sites (Spec)                      *)
(***************************************************************************)
\* a step of the run keeps its bookkeeping: one attempt at a time, the run
\* moves on only from an attempted site, a failed site is followed by the
\* next one or by the end of the run, the run is over only when every site
\* was attempted, and listings aggregated earlier are kept unchanged
RunStepKeepsGoing ==
    /\ stats'.attempted \in {stats.attempted, stats.attempted + 1}
    /\ stats'.attempted = stats.attempted + 1 =>
          /\ pc = "idle"
          /\ stats'.attempted = idx
          /\ attempts' = Append(attempts, CurIndex)
    /\ stats'.attempted = stats.attempted => attempts' = attempts
    /\ idx' \in {idx, idx + 1}
    /\ idx' = idx + 1 => stats'.attempted = idx
    /\ stats'.failed > stats.failed =>
          /\ idx' = idx + 1
          /\ pc' = IF idx < Len(brokers) THEN "idle" ELSE "done"
    /\ pc' = "done" => stats'.attempted = Len(brokers)
    /\ Len(all_listings') >= Len(all_listings)
    /\ SubSeq(all_listings', 1, Len(all_listings)) = all_listings

\* no list index occurs twice in att, and at the end of the run each occurs
AttemptedOnce(att, ended) ==
    /\ \A j, k \in 1..Len(att) : att[j] = att[k] => j = k
    /\ \A k \in 1..Len(att) : att[k] \in 1..Len(brokers)
    /\ ended => \A i \in 1..Len(brokers) : \E k \in 1..Len(att) : att[k] = i

\* the attempts follow the list
InListOrder(att) == \A k \in 1..Len(att) : att[k] = k

\* the attempts take the specialized franchise sites first, and follow the
\* list among the specialized sites and among the others
InPhaseOrder(att) ==
    \A j, k \in 1..Len(att) :
        j < k =>
          LET sj == IsSpecialized(brokers[att[j]], specialized_available)
              sk == IsSpecialized(brokers[att[k]], specialized_available)
          IN /\ sk => sj
             /\ sj = sk => att[j] < att[k]

\* C15: a site's failure does not end the run: for every list of sites and
\* every pattern of failures each site is attempted exactly once, a failed
\* site is followed by the next one, and listings aggregated earlier are
\* kept unchanged; the sites are taken in list order within the specialized
\* franchise sites, which come first, and within the remaining sites.
C15_FailureDoesNotAbort ==
    [][/\ RunStepKeepsGoing
       /\ AttemptedOnce(attempts', pc' = "done")
       /\ InPhaseOrder(attempts')]_vars

\* C15 as stated: the same, with every site attempted in list order
C15_AttemptedInListOrder ==
    [][/\ RunStepKeepsGoing
       /\ AttemptedOnce(attempts', pc' = "done")
       /\ InListOrder(attempts')]_vars

\* the franchise site, second in the list, was scraped first and gave
\* listings; the other site then failed with an exception during extraction,
\* and the run is over with the franchise site's listings kept
C15_Witness ==
    /\ pc = "done"
    /\ attempts = <<2, 1>>
    /\ stats.attempted = 2
    /\ stats.failed = 1
    /\ stats.success = 1
    /\ Len(failures) = 1
    /\ failures[1].broker_url = UrlA
    /\ Len(all_listings) > 0
    /\ \A k \in 1..Len(all_listings) : all_listings[k].broker_url = UrlA2

\* the kinds classify_failure can return
FailureKinds ==
    {"HTTP_403", "HTTP_404", "HTTP_500", "TIMEOUT", "SSL_ERROR", "CAPTCHA",
     "NO_PATTERN", "JAVASCRIPT_HEAVY", "UNKNOWN"}

\* C16: every site that ends as failed (fetch error, non-success status,
\* exception, zero listings) has exactly one FailureRecord appended for it,
\* and the record's kind is one of the kinds classify_failure can return,
\* whatever the HTTP status was.
C16_FailedSiteIsRecorded ==
    [][stats'.failed > stats.failed =>
          /\ failures' = Append(failures, failures'[Len(failures')])
          /\ failures'[Len(failures')].broker_url = CurBroker.url
          /\ failures'[Len(failures')].failure_type \in FailureKinds]_vars

\* the site is a chain of site.len pages, each with a next link but the
\* last, nothing is served beyond the last page, every fetch works, and
\* the listing grid is among the candidates that are tried on every page
ChainSite(site) ==
    /\ site.first = "ok"
    /\ site.file = "none"
    /\ site.len >= 1
    /\ site.nav = "href"
    /\ site.tail \in {"nopatterns", "noextract"}
    /\ site.gotofail = 0
    /\ site.raiseat = 0
    /\ site.decoys < TryLimit

\* the listings of all pages of the site, and their URLs
SiteListings(site, host) ==
    UNION {{GridListings(site, host, m)[k] :
               k \in 1..Len(GridListings(site, host, m))} : m \in 1..site.len}
SiteUrls(site, host) == {l.url : l \in SiteListings(site, host)}

\* C19: for a site that is a chain of n pages (n at most the page cap)
\* where every page yields a listing and only the last has no next link,
\* the loop scrapes exactly n pages and never counts an empty page, and the
\* site contributes as many listings as its pages hold distinct listing
\* URLs (its listings all qualify and none was seen at an earlier site).
C19_ChainScrapedOnce ==
    [][(/\ pc = "returned"
        /\ pc' # "returned"
        /\ ChainSite(cur_site)
        /\ cur_site.len <= max_pages
        /\ \A l \in SiteListings(cur_site, CurBroker.url.host) :
              /\ Passes(impl, l, run.pattern_used # None, vertical_config)
              /\ Md5(l.url) \notin seen_ids)
       => (/\ run.pages_scraped = cur_site.len
           /\ run.consecutive_empty = 0
           /\ run.why # "empty_pages"
           /\ Len(all_listings') = Len(all_listings)
                 + Cardinality(SiteUrls(cur_site, CurBroker.url.host))
           /\ stats'.listings = stats.listings
                 + Cardinality(SiteUrls(cur_site, CurBroker.url.host))
           /\ stats'.success = stats.success + 1)]_vars

\* a chain of MaxLen pages was scraped, every page but the first repeating
\* a listing of the page before it, and the loop has returned after the
\* last page
C19_Witness ==
    /\ pc = "returned"
    /\ ChainSite(cur_site)
    /\ cur_site.len = MaxLen
    /\ cur_site.overlap
    /\ run.pages_scraped = MaxLen
    /\ Len(run.all_listings) = 2 * MaxLen - 1
    /\ Cardinality(SiteUrls(cur_site, CurBroker.url.host)) = MaxLen
    /\ \A l \in SiteListings(cur_site, CurBroker.url.host) :
          /\ Passes(impl, l, run.pattern_used # None, vertical_config)
          /\ Md5(l.url) \notin seen_ids

\* the time of the last observation that a record carries (last_seen or
\* scraped_at): the records of v4 have first_seen only; the record of the
\* unified scraper has scraped_at only, which is the time the model keeps
\* in first_seen
LastSeen(i, rec) == IF i = "unified" THEN Some(rec.first_seen) ELSE None

\* the site whose loop has returned observed the URL of this record again
Reobserved(rec) ==
    /\ pc = "returned"
    /\ \E k \in 1..Len(run.all_listings) :
          /\ Passes(impl, run.all_listings[k], run.pattern_used # None,
                    vertical_config)
          /\ Md5(run.all_listings[k].url) = rec.id

\* C20: when a URL whose listing was accepted is observed again, the
\* record is updated, neither dropped nor replaced: it keeps its place, its
\* identifier and its first_seen, and its last_seen/scraped_at becomes the
\* time of the new observation.
C20_ReobservationUpdates ==
    [][\A k \in 1..Len(all_listings) :
          (Reobserved(all_listings[k]) /\ pc' # "returned")
             => /\ Len(all_listings') >= k
                /\ all_listings'[k].id = all_listings[k].id
                /\ impl = "v4" =>
                      all_listings'[k].first_seen = all_listings[k].first_seen
                /\ LastSeen(impl, all_listings'[k]) = Some(clock)]_vars

(***************************************************************************)
(* standalone_scraper.py: the run of StandaloneScraper                     *)
(***************************************************************************)
\* hexdigest()[:12]: the first twelve digits of a digest; distinct digests
\* can share them (here: those of URLs whose numbers have the same parity)
Prefix12(digest) == [md5 |-> [digest.md5 EXCEPT !.n = @ % 2]]

\* specialized.generate_listing_id, and the id built in scrape_broker
GenerateListingId(url) == [dl |-> Prefix12(Md5(url))]

StandaloneRecord(url, broker, now) ==
    [id |-> GenerateListingId(url), source_url |-> url,
     broker_url |-> broker.url, first_seen |-> now]

\* run_async, phase 1: the loop over the listings of a specialized broker;
\* seen_ids is keyed on the id of the listing
RECURSIVE DedupeSpecialized(_, _)
DedupeSpecialized(listings, acc) ==
    IF listings = <<>> THEN acc
    ELSE LET listing == Head(listings)
             lid == listing.id
             next == IF lid \notin acc.seen_ids
                     THEN [seen_ids |-> acc.seen_ids \cup {lid},
                           all_listings |-> Append(acc.all_listings, listing)]
                     ELSE acc
         IN DedupeSpecialized(Tail(listings), next)

\* scrape_broker: the loop over the listings of a regular broker; seen_ids
\* is keyed on the whole digest of the source URL, the id is its prefix
RECURSIVE DedupeRegular(_, _, _, _)
DedupeRegular(urls, broker, now, acc) ==
    IF urls = <<>> THEN acc
    ELSE LET listing_id == Md5(Head(urls))
             next == IF listing_id \notin acc.seen_ids
                     THEN [seen_ids |-> acc.seen_ids \cup {listing_id},
                           unique_listings |->
                               Append(acc.unique_listings,
                                      StandaloneRecord(Head(urls), broker, now))]
                     ELSE acc
         IN DedupeRegular(Tail(urls), broker, now, next)

\* the listing URLs a broker's pages can hold
ItemUrls == {MkUrl(HostA, "item", k) : k \in 1..(MaxLen + 1)}
UrlLists ==
    UNION {[1..n -> ItemUrls] : n \in 0..MaxLen}

StandaloneLists ==
    { <<Broker(UrlA), Franchise(UrlA2)>>, <<Broker(UrlA), Broker(UrlB)>> }

StandaloneInit ==
    /\ impl = "standalone"
    /\ clock = 1
    /\ persisted = [valid |-> TRUE, data |-> <<>>]
    /\ patterns = <<>>
    /\ history = <<>>
    /\ kb_calls = 0
    /\ kb_last = [op |-> "init", domain |-> <<>>, args |-> NoArgs,
                  raised |-> FALSE, result |-> None]
    /\ kb_log = <<>>
    /\ specialized_available \in BOOLEAN
    /\ brokers \in StandaloneLists
    /\ attempts = <<>>
    /\ idx = 1
    /\ pc = "idle"
    /\ cur_site = BaseSite
    /\ run = NoRun
    /\ vertical_config = FALSE
    /\ seen_ids = {}
    /\ all_listings = <<>>
    /\ stats = ZeroStats
    /\ failures = <<>>
    /\ broker_results = <<>>

StandaloneFailure(broker, error) == [url |-> broker.url, error |-> error]

\* run_async, phase 1: one specialized broker; urls are the source URLs of
\* the listings scrape_specialized_broker returns
StandaloneSpecialized(outcome, urls) ==
    LET broker == CurBroker
        st == [stats EXCEPT !.attempted = @ + 1]
        listings == [k \in 1..Len(urls) |-> StandaloneRecord(urls[k], broker, clock)]
        acc == DedupeSpecialized(listings, [seen_ids |-> seen_ids,
                                            all_listings |-> all_listings])
    IN
    /\ pc = "idle"
    /\ idx <= Len(brokers)
    /\ IsSpecialized(broker, specialized_available)
    /\ outcome \in {"ok", "raise"}
    /\ urls \in UrlLists
    /\ outcome = "raise" => urls = <<>>
    /\ attempts' = Append(attempts, CurIndex)
    /\ clock' = clock + 1
    /\ IF outcome = "raise" \/ listings = <<>>
       THEN /\ stats' = [st EXCEPT !.failed = @ + 1]
            /\ failures' = Append(failures,
                                  StandaloneFailure(broker,
                                      IF outcome = "raise" THEN "exception"
                                      ELSE "No listings returned"))
            /\ UNCHANGED <<seen_ids, all_listings>>
       ELSE /\ seen_ids' = acc.seen_ids
            /\ all_listings' = acc.all_listings
            /\ stats' = [st EXCEPT !.success = @ + 1, !.listings = @ + Len(listings)]
            /\ UNCHANGED failures
    /\ NextBroker
    /\ UNCHANGED <<impl, patterns, persisted, history, kb_calls, kb_last, kb_log,
                   brokers, specialized_available, vertical_config,
                   broker_results>>

\* run_async, phase 2: scrape_broker on one regular broker and the extend of
\* all_listings by what it returns; urls are the source URLs of the
\* listings scrape_with_patterns returns
StandaloneScrapeBroker(outcome, urls) ==
    LET broker == CurBroker
        st == [stats EXCEPT !.attempted = @ + 1]
        acc == DedupeRegular(urls, broker, clock,
                             [seen_ids |-> seen_ids, unique_listings |-> <<>>])
    IN
    /\ pc = "idle"
    /\ idx <= Len(brokers)
    /\ ~IsSpecialized(broker, specialized_available)
    /\ outcome \in {"ok", "status", "raise"}
    /\ urls \in UrlLists
    /\ outcome # "ok" => urls = <<>>
    /\ attempts' = Append(attempts, CurIndex)
    /\ clock' = clock + 1
    /\ IF outcome # "ok" \/ urls = <<>>
       THEN /\ stats' = [st EXCEPT !.failed = @ + 1]
            /\ failures' = Append(failures,
                                  StandaloneFailure(broker,
                                      CASE outcome = "status" -> "HTTP"
                                        [] outcome = "raise" -> "exception"
                                        [] OTHER -> "No listings detected"))
            /\ UNCHANGED <<seen_ids, all_listings>>
       ELSE /\ seen_ids' = acc.seen_ids
            /\ all_listings' = all_listings \o acc.unique_listings
            /\ stats' = [st EXCEPT !.success = @ + 1,
                                   !.listings = @ + Len(acc.unique_listings)]
            /\ UNCHANGED failures
    /\ NextBroker
    /\ UNCHANGED <<impl, patterns, persisted, history, kb_calls, kb_last, kb_log,
                   brokers, specialized_available, vertical_config,
                   broker_results>>

StandaloneNext ==
    \/ \E o \in {"ok", "raise"}, urls \in UrlLists : StandaloneSpecialized(o, urls)
    \/ \E o \in {"ok", "status", "raise"}, urls \in UrlLists :
          StandaloneScrapeBroker(o, urls)

SpecStandalone == StandaloneInit /\ [][StandaloneNext]_vars

\* C17: after any sequence of site scrapes in one run (specialized phase,
\* file-download path, pattern-detection path, in any mix) no two records
\* of the aggregated listings have the same identifier.
C17_NoDuplicateIds ==
    \A j, k \in 1..Len(all_listings) :
        all_listings[j].id = all_listings[k].id => j = k

(***************************************************************************)
(* Listing identifiers: normalize_listing of v4, the id of the unified     *)
(* scraper, generate_listing_id of specialized.py and of the ingestion     *)
(***************************************************************************)
EmptyUrl == MkUrl(<<>>, "", 0)

\* v4 normalize_listing: listing.get('listing_url') or listing.get('url') or ''
SourceUrl(raw) ==
    IF raw.listing_url # None THEN raw.listing_url[1]
    ELSE IF raw.url # None THEN raw.url[1]
    ELSE EmptyUrl

\* the observation normalize_listing of v4 gives
ObserveV4(raw, broker, now) ==
    LET n == NormalizeListing([url |-> SourceUrl(raw), text |-> raw.text],
                              broker, now)
    IN [source_url |-> Some(n.source_url), id |-> n.id]

\* unified scrape_broker: md5 of the listing's url, or of the broker's url,
\* '#' and the digest of the text when the listing has no url
ObserveUnified(raw, broker) ==
    [source_url |-> raw.url,
     id |-> IF raw.url # None THEN Md5(raw.url[1])
            ELSE [md5 |-> <<broker.url, "#", [md5 |-> raw.text]>>]]

\* specialized.normalize_listing
ObserveSpecialized(raw) ==
    [source_url |-> Some(SourceUrl(raw)), id |-> GenerateListingId(SourceUrl(raw))]

\* ingestion/normalize.py generate_listing_id:
\* "dl_" + sha256(f"{broker_id}:{source_url}").hexdigest()[:12]
Sha256(content) == [sha256 |-> content]
Sha256Prefix12(digest) ==
    [sha256 |-> [digest.sha256 EXCEPT !.source_url.n = @ % 2]]
IngestListingId(source_url, broker_id) ==
    [dl |-> Sha256Prefix12(Sha256([broker_id |-> broker_id,
                                   source_url |-> source_url]))]

\* ingestion/normalize.py normalize_listing: the id of the raw listing if it
\* has one, else a generated one
ObserveIngest(raw) ==
    [source_url |-> raw.source_url,
     id |-> IF raw.id # None THEN raw.id[1]
            ELSE IngestListingId(IF raw.source_url # None THEN raw.source_url[1]
                                 ELSE EmptyUrl,
                                 raw.broker_id)]

IdUrls == {MkUrl(HostA, "item", k) : k \in 1..MaxLen}
OptUrls == {None} \cup {Some(u) : u \in IdUrls}
RawListings ==
    [listing_url : OptUrls, url : OptUrls, text : {TextBiz, TextPlain}]
RawIngest ==
    [source_url : OptUrls, broker_id : {"b1", "b2"}, id : {None}]
        \cup {[source_url |-> Some(u), broker_id |-> "b1", id |-> Some(Md5(u))] :
                 u \in IdUrls}
IdBrokers == {Broker(UrlA), Broker(UrlB)}

IdInit ==
    /\ impl \in Impls
    /\ clock = 1
    /\ patterns = <<>>
    /\ persisted = [valid |-> TRUE, data |-> <<>>]
    /\ history = <<>>
    /\ kb_calls = 0
    /\ kb_last = [op |-> "init", domain |-> <<>>, args |-> NoArgs,
                  raised |-> FALSE, result |-> None]
    /\ kb_log = <<>>
    /\ brokers = <<>>
    /\ specialized_available = FALSE
    /\ attempts = <<>>
    /\ idx = 1
    /\ pc = "done"
    /\ cur_site = BaseSite
    /\ run = NoRun
    /\ vertical_config = FALSE
    /\ seen_ids = {}
    /\ all_listings = <<>>
    /\ stats = ZeroStats
    /\ failures = <<>>
    /\ broker_results = <<>>

\* one more observation of a listing; kb_log keeps the observations
Observe(op, broker, obs) ==
    /\ kb_calls < MaxKBCalls
    /\ kb_calls' = kb_calls + 1
    /\ clock' = clock + 1
    /\ kb_log' = Append(kb_log, [op |-> op, broker |-> broker, at |-> clock,
                                 source_url |-> obs.source_url, id |-> obs.id])
    /\ UNCHANGED <<impl, patterns, persisted, history, kb_last>>
    /\ UNCHANGED runvars

IdScraper(raw, broker) ==
    /\ Observe(impl, broker.url,
               IF impl = "v4" THEN ObserveV4(raw, broker, clock)
               ELSE ObserveUnified(raw, broker))

IdSpecialized(raw, broker) ==
    /\ Observe("specialized", broker.url, ObserveSpecialized(raw))

IdIngest(raw) ==
    /\ Observe("ingest", raw.broker_id, ObserveIngest(raw))

IdNext ==
    \/ \E raw \in RawListings, b \in IdBrokers : IdScraper(raw, b)
    \/ \E raw \in RawListings, b \in IdBrokers : IdSpecialized(raw, b)
    \/ \E raw \in RawIngest : IdIngest(raw)

SpecIds == IdInit /\ [][IdNext]_vars

\* C18: the identifier of a normalized listing depends only on its source
\* URL: two observations of the same URL by the same component (at
\* different times, for different brokers) get the same identifier.
C18_IdFromSourceUrlOnly ==
    \A j, k \in 1..Len(kb_log) :
        (/\ kb_log[j].op = kb_log[k].op
         /\ kb_log[j].source_url # None
         /\ kb_log[j].source_url = kb_log[k].source_url)
            => kb_log[j].id = kb_log[k].id

(***************************************************************************)
(* Claims about filtering and the statistics of the run (Spec)             *)
(***************************************************************************)
\* the records that the step appends to the aggregated listings
NewRecords ==
    {all_listings'[k] : k \in (Len(all_listings) + 1)..Len(all_listings')}

\* C21: no element whose text matches the real-estate pattern is added to
\* the aggregated listings from the pattern-detection path, whichever page
\* it came from and however the pagination loop ended.
C21_NoRealEstate ==
    [][(pc = "returned" /\ pc' # "returned") =>
          \A rec \in NewRecords :
             \A k \in 1..Len(run.all_listings) :
                run.all_listings[k].url = rec.source_url
                   => ~run.all_listings[k].text.re]_vars

(***************************************************************************)
(* PatternDetector.find_patterns                                           *)
(***************************************************************************)
MinDepth == 3
MaxDepth == 15
MinGroup == 3
MediumText == 50
LongText == 200
MaxGroup == 5

\* the tags find_all looks for
ListingTags == {"div", "article", "section", "li", "tr"}

\* _get_signature: the tag, the sorted set of child tags, has_link, has_img,
\* the bucket of the text length, has_price
GetSignature(el) ==
    [tag |-> el.tag, children |-> el.children, has_link |-> el.link,
     has_img |-> el.img,
     text |-> IF el.text_len > LongText THEN "long"
              ELSE IF el.text_len > MediumText THEN "medium" ELSE "",
     has_price |-> el.price]

\* the elements the first loop of find_patterns files under their signature
Eligible(el) ==
    /\ el.tag \in ListingTags
    /\ el.depth >= MinDepth
    /\ el.depth <= MaxDepth

\* the keys of signatures, a dict: in the order of their first element
RECURSIVE SignatureKeys(_, _)
SignatureKeys(doc, keys) ==
    IF doc = <<>> THEN keys
    ELSE LET sig == GetSignature(Head(doc))
         IN SignatureKeys(Tail(doc),
               IF Eligible(Head(doc)) /\ \A k \in 1..Len(keys) : keys[k] # sig
               THEN Append(keys, sig) ELSE keys)

\* el.find('a', href=True) and len(el.get_text(strip=True)) > 50
ValidElement(el) == el.link /\ el.text_len > MediumText

\* the pattern of one signature: empty when the group or its valid part
\* has fewer than 3 elements
PatternOfSig(doc, sig) ==
    LET elements == SelectSeq(doc, LAMBDA el : Eligible(el) /\ GetSignature(el) = sig)
        valid == SelectSeq(elements, ValidElement)
    IN IF Len(elements) >= MinGroup /\ Len(valid) >= MinGroup
       THEN <<[signature |-> sig, elements |-> valid, count |-> Len(valid)]>>
       ELSE <<>>

\* patterns.sort(key=count, reverse=True) is stable
RECURSIVE InsertByCount(_, _)
InsertByCount(sorted, x) ==
    IF sorted = <<>> THEN <<x>>
    ELSE IF x.count > Head(sorted).count THEN <<x>> \o sorted
    ELSE <<Head(sorted)>> \o InsertByCount(Tail(sorted), x)

RECURSIVE SortByCount(_, _)
SortByCount(done, todo) ==
    IF todo = <<>> THEN done
    ELSE SortByCount(InsertByCount(done, Head(todo)), Tail(todo))

RECURSIVE PatternsOfKeys(_, _)
PatternsOfKeys(doc, keys) ==
    IF keys = <<>> THEN <<>>
    ELSE PatternOfSig(doc, Head(keys)) \o PatternsOfKeys(doc, Tail(keys))

\* find_patterns without the sort by count
FindPatternsUnsorted(doc) ==
    PatternsOfKeys(doc, SignatureKeys(doc, <<>>))

\* find_patterns
FindPatterns(doc) ==
    SortByCount(<<>>, PatternsOfKeys(doc, SignatureKeys(doc, <<>>)))

\* elements of documents: a listing card, and what differs from it
BaseElement ==
    [tag |-> "div", depth |-> MinDepth, children |-> {"a", "p"}, link |-> TRUE,
     img |-> FALSE, text_len |-> MediumText + 1, price |-> FALSE]
ElementKinds ==
    {[BaseElement EXCEPT !.depth = d] :
        d \in {MinDepth - 1, MinDepth, MaxDepth, MaxDepth + 1}}
    \cup {[BaseElement EXCEPT !.tag = "li", !.text_len = LongText + 1],
          [BaseElement EXCEPT !.link = FALSE],
          [BaseElement EXCEPT !.text_len = MediumText],
          [BaseElement EXCEPT !.tag = "span"]}
CardKinds == {BaseElement, [BaseElement EXCEPT !.tag = "li", !.text_len = LongText + 1]}

Rep(el, n) == [k \in 1..n |-> el]

\* documents: three runs of equal elements
Documents ==
    {Rep(e1, n1) \o Rep(e2, n2) \o Rep(e3, n3) :
        e1 \in ElementKinds, e2 \in ElementKinds, e3 \in CardKinds,
        n1 \in {0, MaxGroup}, n2 \in 0..MaxGroup, n3 \in 0..MinGroup}

DetectInit ==
    /\ impl \in Impls
    /\ clock = 1
    /\ patterns = <<>>
    /\ persisted = [valid |-> TRUE, data |-> <<>>]
    /\ history = <<>>
    /\ kb_calls = 0
    /\ kb_last = [op |-> "init", domain |-> <<>>, args |-> NoArgs,
                  raised |-> FALSE, result |-> None]
    /\ kb_log = <<>>
    /\ brokers = <<>>
    /\ specialized_available = FALSE
    /\ attempts = <<>>
    /\ idx = 1
    /\ pc = "done"
    /\ cur_site = BaseSite
    /\ run = NoRun
    /\ vertical_config = FALSE
    /\ seen_ids = {}
    /\ all_listings = <<>>
    /\ stats = ZeroStats
    /\ failures = <<>>
    /\ broker_results = <<>>

\* find_patterns, called once on a document
DetectFindPatterns(doc) ==
    /\ kb_calls = 0
    /\ kb_calls' = kb_calls + 1
    /\ \E r \in {FindPatterns(doc)} :
          kb_last' = [op |-> "find_patterns", domain |-> <<>>,
                      args |-> [doc |-> doc], raised |-> FALSE, result |-> r]
    /\ UNCHANGED <<impl, clock, patterns, persisted, history, kb_log>>
    /\ UNCHANGED runvars

DetectNext == \E doc \in Documents : DetectFindPatterns(doc)

SpecDetect == DetectInit /\ [][DetectNext]_vars

\* the eligible elements of the document with this signature
GroupOf(doc, sig) ==
    {k \in 1..Len(doc) : Eligible(doc[k]) /\ GetSignature(doc[k]) = sig}

\* the group has at least 3 members and at least 3 valid ones
QualifyingGroup(doc, sig) ==
    /\ Cardinality(GroupOf(doc, sig)) >= MinGroup
    /\ Cardinality({k \in GroupOf(doc, sig) : ValidElement(doc[k])}) >= MinGroup

\* C22: find_patterns returns one candidate for exactly the signature
\* groups (of div/article/section/li/tr elements at depth 3..15) that have
\* at least 3 members of which at least 3 have a link and more than 50
\* characters of text, its count being the number of those, in descending
\* order of count; a document without such a group gives the empty list
\* and no error.
C22_FindPatterns ==
    kb_last.op = "find_patterns" =>
        LET doc == kb_last.args.doc
            res == kb_last.result
        IN /\ ~kb_last.raised
           /\ \A k \in 1..Len(doc) :
                 QualifyingGroup(doc, GetSignature(doc[k]))
                    <=> \E j \in 1..Len(res) :
                           res[j].signature = GetSignature(doc[k])
           /\ \A j \in 1..Len(res) :
                 /\ QualifyingGroup(doc, res[j].signature)
                 /\ res[j].count =
                       Cardinality({k \in GroupOf(doc, res[j].signature) :
                                       ValidElement(doc[k])})
                 /\ Len(res[j].elements) = res[j].count
                 /\ \A i \in 1..Len(res) :
                       /\ res[i].signature = res[j].signature => i = j
                       /\ i < j => res[i].count >= res[j].count

\* five identical cards and two unrelated elements gave one candidate with
\* count 5
C22_Witness ==
    /\ kb_last.op = "find_patterns"
    /\ kb_last.args.doc = Rep(BaseElement, MaxGroup)
          \o Rep([BaseElement EXCEPT !.tag = "li", !.text_len = LongText + 1], 2)
    /\ Len(kb_last.result) = 1
    /\ kb_last.result[1].count = MaxGroup

(***************************************************************************)
(* SmartExtractor and classify_vertical.  The text of an element is a      *)
(* sequence of tokens: a word or phrase, a dollar amount ("$450,000" is    *)
(* the amount 450000), or a "City, ST" location.                           *)
(***************************************************************************)
MinTextLen == 30
RevenueFloor == 10000
CashflowFloor == 1000

Word(w) == [k |-> "word", w |-> w, v |-> 0, city |-> "", state |-> ""]
Amount(v) == [k |-> "amount", w |-> "$", v |-> v, city |-> "", state |-> ""]
Location(c, st) == [k |-> "loc", w |-> "", v |-> 0, city |-> c, state |-> st]

\* the words of the texts that are keywords of a vertical; "bakery" and the
\* labels are keywords of none
V4_VERTICALS == <<"cleaning", "landscape", "hvac", "vending">>
V4Keywords(vertical) ==
    CASE vertical = "cleaning" -> {"cleaning", "janitorial"}
      [] vertical = "landscape" -> {"landscaping"}
      [] vertical = "hvac" -> {"hvac", "heating"}
      [] vertical = "vending" -> {"vending", "laundromat"}

VERTICAL_KEYWORDS == <<"cleaning", "laundromat", "vending", "hvac", "landscaping">>
StandaloneKeywords(vertical) ==
    CASE vertical = "cleaning" -> {"cleaning", "janitorial"}
      [] vertical = "laundromat" -> {"laundromat"}
      [] vertical = "vending" -> {"vending"}
      [] vertical = "hvac" -> {"hvac", "heating"}
      [] vertical = "landscaping" -> {"landscaping"}

WordsOf(text) == {text[i].w : i \in {j \in 1..Len(text) : text[j].k = "word"}}

\* v4: one point per keyword found, the vertical with the most points (the
\* first one scored on a tie), None when no keyword is found
ClassifyV4(text) ==
    LET score(vt) == Cardinality(V4Keywords(vt) \cap WordsOf(text))
        scored == {i \in 1..Len(V4_VERTICALS) : score(V4_VERTICALS[i]) > 0}
    IN IF scored = {} THEN None
       ELSE LET best == CHOOSE i \in scored :
                           /\ \A j \in scored :
                                 score(V4_VERTICALS[j]) <= score(V4_VERTICALS[i])
                           /\ \A j \in scored :
                                 score(V4_VERTICALS[j]) = score(V4_VERTICALS[i])
                                    => i <= j
            IN Some(V4_VERTICALS[best])

\* standalone, specialized, base: the first vertical one of whose keywords is
\* found, "other" when none is
ClassifyFirstMatch(text) ==
    LET hit == {i \in 1..Len(VERTICAL_KEYWORDS) :
                  StandaloneKeywords(VERTICAL_KEYWORDS[i]) \cap WordsOf(text) # {}}
    IN IF hit = {} THEN Some("other")
       ELSE Some(VERTICAL_KEYWORDS[CHOOSE i \in hit : \A j \in hit : i <= j])

classify_vertical(i, text) ==
    IF i = "v4" THEN ClassifyV4(text) ELSE ClassifyFirstMatch(text)

AmountsOf(text) == {text[i].v : i \in {j \in 1..Len(text) : text[j].k = "amount"}}

\* the largest dollar amount of the text
ExtractPriceText(text) ==
    IF AmountsOf(text) = {} THEN None
    ELSE Some(CHOOSE v \in AmountsOf(text) : \A u \in AmountsOf(text) : u <= v)

\* the labels a pattern of REVENUE_PATTERNS or CASHFLOW_PATTERNS matches
REVENUE_PATTERNS == <<{"revenue"}, {"gross sales"}>>
CASHFLOW_PATTERNS == <<{"cash flow"}, {"net income"}>>

\* re.search of one pattern: the amount after the first label it matches
SearchLabel(text, labels) ==
    LET at == {i \in 1..(Len(text) - 1) :
                 /\ text[i].k = "word" /\ text[i].w \in labels
                 /\ text[i + 1].k = "amount"}
    IN IF at = {} THEN None
       ELSE Some(text[(CHOOSE i \in at : \A j \in at : i <= j) + 1].v)

\* the first pattern, in order, whose first match is above the floor
ExtractLabelled(text, pats, floor) ==
    LET ok == {p \in 1..Len(pats) :
                 /\ SearchLabel(text, pats[p]) # None
                 /\ SearchLabel(text, pats[p])[1] > floor}
    IN IF ok = {} THEN None
       ELSE SearchLabel(text, pats[CHOOSE p \in ok : \A q \in ok : p <= q])

ExtractRevenue(text) == ExtractLabelled(text, REVENUE_PATTERNS, RevenueFloor)
ExtractCashflow(text) == ExtractLabelled(text, CASHFLOW_PATTERNS, CashflowFloor)

\* the first "City, ST" of the text
ExtractLocation(text) ==
    LET at == {i \in 1..Len(text) : text[i].k = "loc"}
    IN IF at = {} THEN None
       ELSE Some(text[CHOOSE i \in at : \A j \in at : i <= j])

\* SmartExtractor.extract: link is "ok", "none" or "skip" (an href with '#',
\* 'javascript:', '/contact' or '/about')
Extract(i, el) ==
    IF el.text_len < MinTextLen \/ el.link # "ok" THEN None
    ELSE LET loc == ExtractLocation(el.text)
         IN Some([price_text |-> ExtractPriceText(el.text),
                  price |-> ExtractPriceText(el.text),
                  city |-> IF loc = None THEN None ELSE Some(loc[1].city),
                  state |-> IF loc = None THEN None ELSE Some(loc[1].state),
                  revenue |-> ExtractRevenue(el.text),
                  cash_flow |-> ExtractCashflow(el.text),
                  vertical |-> classify_vertical(i, el.text)])

\* texts of the shape of the example: words, the asking price, "Revenue:"
\* and "Cash Flow:" with their amounts, and a location
ExampleText(w, ask, rev, cf, loc) ==
    <<Word(w), Word("for sale"), Amount(ask), Word("revenue"), Amount(rev),
      Word("cash flow"), Amount(cf), loc>>

AskingPrices == {450000, 900000}
Revenues == {800000, 300000}
Cashflows == {200000, 50000}
Locations == {Location("Austin", "TX"), Location("Reno", "NV")}
TextWords == {"cleaning", "janitorial", "hvac", "heating", "vending",
              "laundromat", "landscaping", "bakery"}

ExampleElements ==
    {[text |-> ExampleText(w, a, r, c, l), link |-> "ok",
      text_len |-> MinTextLen] :
        w \in TextWords, a \in AskingPrices, r \in Revenues, c \in Cashflows,
        l \in Locations}

OtherElements ==
    {[text |-> t, link |-> lk, text_len |-> n] :
        t \in {<<Word("cleaning"), Word("revenue"), Amount(RevenueFloor),
                 Word("gross sales"), Amount(300000)>>,
               <<Word("bakery"), Word("net income"), Amount(CashflowFloor + 1)>>,
               <<Word("cleaning"), Location("Austin", "TX")>>},
        lk \in {"ok", "none", "skip"},
        n \in {MinTextLen - 1, MinTextLen}}

ClassifyTexts ==
    {<<Word(a), Word(b), Word(c)>> : a \in TextWords, b \in TextWords,
                                     c \in TextWords}

ExtractInit ==
    /\ impl \in {"v4", "standalone"}
    /\ clock = 1
    /\ patterns = <<>>
    /\ persisted = [valid |-> TRUE, data |-> <<>>]
    /\ history = <<>>
    /\ kb_calls = 0
    /\ kb_last = [op |-> "init", domain |-> <<>>, args |-> NoArgs,
                  raised |-> FALSE, result |-> None]
    /\ kb_log = <<>>
    /\ brokers = <<>>
    /\ specialized_available = FALSE
    /\ attempts = <<>>
    /\ idx = 1
    /\ pc = "done"
    /\ cur_site = BaseSite
    /\ run = NoRun
    /\ vertical_config = FALSE
    /\ seen_ids = {}
    /\ all_listings = <<>>
    /\ stats = ZeroStats
    /\ failures = <<>>
    /\ broker_results = <<>>

\* SmartExtractor.extract, called once on an element
ExtractElement(el) ==
    /\ kb_calls = 0
    /\ kb_calls' = kb_calls + 1
    /\ \E r \in {Extract(impl, el)} :
          kb_last' = [op |-> "extract", domain |-> <<>>,
                      args |-> [el |-> el], raised |-> FALSE, result |-> r]
    /\ UNCHANGED <<impl, clock, patterns, persisted, history, kb_log>>
    /\ UNCHANGED runvars

\* classify_vertical, called once on a text
ClassifyText(text) ==
    /\ kb_calls = 0
    /\ kb_calls' = kb_calls + 1
    /\ \E r \in {classify_vertical(impl, text)} :
          kb_last' = [op |-> "classify", domain |-> <<>>,
                      args |-> [text |-> text], raised |-> FALSE, result |-> r]
    /\ UNCHANGED <<impl, clock, patterns, persisted, history, kb_log>>
    /\ UNCHANGED runvars

ExtractNext ==
    \/ \E el \in ExampleElements \cup OtherElements : ExtractElement(el)
    \/ \E text \in ClassifyTexts : ClassifyText(text)

SpecExtract == ExtractInit /\ [][ExtractNext]_vars

\* C23: an element with a valid anchor whose text gives an asking price, then
\* "Revenue:" and "Cash Flow:" with their amounts, then "City, ST", is
\* extracted with price_text the asking price, revenue and cash_flow the
\* labelled amounts, and the city and state of the location (and vertical
\* "cleaning" when the text says cleaning).
C23_ExtractExample ==
    (kb_last.op = "extract" /\ kb_last.args.el \in ExampleElements) =>
        LET t == kb_last.args.el.text
            res == kb_last.result
        IN /\ res # None
           /\ res[1].price_text = Some(t[3].v)
           /\ res[1].revenue = Some(t[5].v)
           /\ res[1].cash_flow = Some(t[7].v)
           /\ res[1].city = Some(t[8].city)
           /\ res[1].state = Some(t[8].state)
           /\ t[1].w = "cleaning" => res[1].vertical = Some("cleaning")

\* C24: classification returns a declared vertical or "other", never none,
\* in every place where classification happens.
C24_ClassifyTotal ==
    /\ kb_last.op = "classify" =>
          /\ kb_last.result # None
          /\ \/ kb_last.result[1] = "other"
             \/ \E i \in 1..Len(V4_VERTICALS) :
                   kb_last.result[1] = V4_VERTICALS[i]
             \/ \E i \in 1..Len(VERTICAL_KEYWORDS) :
                   kb_last.result[1] = VERTICAL_KEYWORDS[i]
    /\ (kb_last.op = "extract" /\ kb_last.result # None) =>
          kb_last.result[1].vertical # None

(***************************************************************************)
(* Claims about the extraction on one page (Spec)                          *)
(***************************************************************************)
\* this step of the loop fetched a page and went on to extract from it
PageProcessed ==
    /\ pc = "loop" /\ pc' \in {"loop", "returned"}
    /\ run.current_url \notin run.visited_urls
    /\ run.current_url \in run'.visited_urls
    /\ run'.why # "goto_failed"

\* the listings the step added to the listings of the site
AddedOnPage ==
    SubSeq(run'.all_listings, Len(run.all_listings) + 1, Len(run'.all_listings))

\* the candidates of the page the step fetched, in rank order
Candidates == PageOf(cur_site, run.current_url).patterns

\* the Knowledge Base entry of the domain of the site
CachedEntry == Lookup(patterns, DomainOf(CurBroker.url))

\* the first page, the domain has an entry, and the candidate with the
\* entry's signature yields a listing
CachedHit ==
    /\ run.pages_scraped = 0
    /\ CachedEntry # None
    /\ \E i \in 1..Len(Candidates) :
          /\ Candidates[i].signature = CachedEntry[1].pattern
          /\ Candidates[i].listings # <<>>

\* the rank order with the predicted candidate, if any, moved to the front
TryOrder ==
    LET cands == Candidates
        ranks == [i \in 1..Len(cands) |-> i]
        predicted == IF run.pages_scraped = 0
                     THEN PredictPattern(patterns, CurBroker.url, SigsOf(cands))
                     ELSE None
        front == {i \in 1..Len(cands) :
                     predicted # None /\ cands[i].signature = predicted[1]}
    IN IF front = {} THEN ranks
       ELSE LET f == CHOOSE i \in front : \A j \in front : i <= j
            IN <<f>> \o SelectSeq(ranks, LAMBDA i : i # f)

\* C26: on a page where detection runs, the listings taken are those of the
\* first of the first 3 candidates (the predicted one first, on the first
\* page) that yields a listing, and of that candidate only; when none of the
\* 3 yields one the loop ends, and a site that ends so on its first page is
\* counted as failed with NO_PATTERN.
C26_TopThreeFirstYielding ==
    [][/\ (PageProcessed /\ ~CachedHit /\ Candidates # <<>>) =>
            LET cands == Candidates
                tried == Prefix(TryOrder, TryLimit)
            IN \/ \E j \in 1..Len(tried) :
                     /\ cands[tried[j]].listings # <<>>
                     /\ \A i \in 1..(j - 1) : cands[tried[i]].listings = <<>>
                     /\ AddedOnPage = cands[tried[j]].listings
                     /\ run'.pattern_used = Some(cands[tried[j]].signature)
               \/ /\ \A j \in 1..Len(tried) : cands[tried[j]].listings = <<>>
                  /\ AddedOnPage = <<>>
                  /\ run'.pattern_used = None
                  /\ pc' = "returned"
       /\ (pc = "returned" /\ pc' # "returned" /\ run.pages_scraped = 0
             /\ run.why = "no_listings") =>
            /\ stats'.failed = stats.failed + 1
            /\ stats'.success = stats.success
            /\ HasKey(stats'.failures_by_type, "NO_PATTERN")
            /\ Get(stats'.failures_by_type, "NO_PATTERN") =
                  (IF HasKey(stats.failures_by_type, "NO_PATTERN")
                   THEN Get(stats.failures_by_type, "NO_PATTERN") ELSE 0) + 1
            /\ all_listings' = all_listings]_vars

\* on the first page of a site of an unknown domain the fourth candidate was
\* predicted from a similar domain, tried first, and gave the one listing
\* of the page; the third candidate, which yields too, was not taken
C26_Witness ==
    /\ pc = "loop"
    /\ cur_site.twin /\ cur_site.decoys = 2
    /\ run.pages_scraped = 1
    /\ CachedEntry = None
    /\ run.ml_used
    /\ run.pattern_used = Some(TwinSig(cur_site.sig))
    /\ Len(run.all_listings) = 1

\* the candidates that yield a listing, by rank
Yielding == {i \in 1..Len(Candidates) : Candidates[i].listings # <<>>}

\* C27: on the first page of a site whose domain has an entry, the listings
\* are those of the candidate with the cached signature, whatever its rank,
\* when it yields any; when it yields none or is not among the candidates,
\* detection runs on the same page and the site goes on with what it yields;
\* on later pages the entry is not consulted: the first of the first 3
\* candidates in rank order that yields is taken.
C27_CachedFirstThenDetect ==
    [][PageProcessed =>
         /\ CachedHit =>
               \E i \in 1..Len(Candidates) :
                  /\ Candidates[i].signature = CachedEntry[1].pattern
                  /\ AddedOnPage = Candidates[i].listings
                  /\ run'.pattern_used = Some(CachedEntry[1].pattern)
                  /\ run'.why # "no_listings"
         /\ (run.pages_scraped = 0 /\ CachedEntry # None /\ ~CachedHit
               /\ \E j \in 1..Len(Prefix(TryOrder, TryLimit)) :
                     TryOrder[j] \in Yielding) =>
               /\ AddedOnPage # <<>>
               /\ run'.pattern_used # None
               /\ run'.pattern_used # Some(CachedEntry[1].pattern)
               /\ run'.why # "no_listings"
         /\ (run.pages_scraped > 0 /\ Yielding \cap 1..TryLimit # {}) =>
               LET first == CHOOSE i \in Yielding : \A j \in Yielding : i <= j
               IN /\ AddedOnPage = Candidates[first].listings
                  /\ run'.pattern_used = Some(Candidates[first].signature)]_vars

\* the domain has an entry whose signature is that of the second structure
\* of the site: the first page gave the listing of that structure, the
\* second page the listing of the grid, which ranks first
C27_Witness ==
    /\ pc \in {"loop", "returned"}
    /\ cur_site.twin /\ cur_site.decoys = 0
    /\ CachedEntry # None
    /\ CachedEntry[1].pattern = TwinSig(cur_site.sig)
    /\ run.pages_scraped = MaxLen
    /\ Len(run.all_listings) = MaxLen
    /\ run.all_listings[1].url.n = 0
    /\ run.all_listings[MaxLen].url.n = MaxLen
    /\ run.pattern_used = Some(cur_site.sig)

(***************************************************************************)
(* Claims about the statistics of the run (Spec)                           *)
(***************************************************************************)
\* C28: in v4, between two sites and at the end of the run, every site
\* attempted so far is counted once, as a success or as a failure:
\* attempted = success + failed = the number of sites taken so far.
C28_AttemptedIsSuccessPlusFailed ==
    (impl = "v4" /\ pc \in {"idle", "done"}) =>
        /\ stats.attempted = stats.success + stats.failed
        /\ stats.attempted = Len(attempts)

\* a franchise site whose specialized scraper failed, then a site that was
\* scraped from its downloadable file
C28_Witness ==
    /\ impl = "v4" /\ pc = "done" /\ specialized_available
    /\ stats.attempted = 2 /\ stats.failed = 1 /\ stats.success = 1
    /\ Len(broker_results) = 1
    /\ broker_results[1].method = "file_download"

\* C29: in v4, between two sites and at the end of the run, stats['listings']
\* is the number of records of all_listings.
C29_ListingsCountsRecords ==
    (impl = "v4" /\ pc \in {"idle", "done"}) => stats.listings = Len(all_listings)

(***************************************************************************)
(* TransworldScraper (specialized_scrapers): scrape fetches page 1 itself  *)
(* and pages 2..max_pages on the threads of a pool; _fetch_page filters    *)
(* the items of its page against self.seen under self.lock.  Here          *)
(* cur_site holds the pages the API serves, seen_ids is self.seen,         *)
(* all_listings is all_items, pc is the position of scrape, and run holds  *)
(* the lock, the threads (thread 0 is the caller of scrape) and the        *)
(* futures.                                                                *)
(***************************************************************************)
MaxPages == 3
MaxWorkers == 2

\* key = item.get("id") or item.get("slug")
ItemKey(item) == IF item.id # None THEN item.id ELSE item.slug

ItemK1 == [id |-> Some("k1"), slug |-> Some("s1")]
ItemK1Slug == [id |-> None, slug |-> Some("k1")]
ItemK2 == [id |-> Some("k2"), slug |-> Some("s1")]
ItemNoKey == [id |-> None, slug |-> None]
Arrs == {<<ItemK1, ItemK2>>, <<ItemK1Slug, ItemK1>>, <<ItemNoKey, ItemK2>>}
PageLists == [1..MaxPages -> Arrs]

IdleThread ==
    [pc |-> "idle", page |-> 0, k |-> 0, fresh |-> FALSE, out |-> <<>>]
Threads == 0..MaxWorkers

WorkersInit ==
    /\ impl = "specialized_scrapers"
    /\ clock = 1
    /\ patterns = <<>>
    /\ persisted = [valid |-> TRUE, data |-> <<>>]
    /\ history = <<>>
    /\ kb_calls = 0
    /\ kb_last = [op |-> "init", domain |-> <<>>, args |-> NoArgs,
                  raised |-> FALSE, result |-> None]
    /\ kb_log = <<>>
    /\ brokers = <<>>
    /\ specialized_available = FALSE
    /\ attempts = <<>>
    /\ idx = 1
    /\ pc = "first"
    /\ \E pages \in PageLists : cur_site = [pages |-> pages]
    /\ run = [lock |-> None,
              th |-> [w \in Threads |->
                         IF w = 0
                         THEN [IdleThread EXCEPT !.pc = "post", !.page = 1]
                         ELSE IdleThread],
              next |-> 2,
              futures |-> {},
              returned |-> [p \in 1..MaxPages |-> None],
              ok |-> {}]
    /\ vertical_config = FALSE
    /\ seen_ids = {}
    /\ all_listings = <<>>
    /\ stats = ZeroStats
    /\ failures = <<>>
    /\ broker_results = <<>>

WorkersFrame ==
    UNCHANGED <<impl, clock, patterns, persisted, history, kb_calls, kb_last,
                kb_log, brokers, specialized_available, attempts, idx,
                cur_site, vertical_config, stats, failures, broker_results>>

\* _fetch_page returns out: the caller of scrape extends all_items with it
\* and opens the pool, a pool thread completes its future
FetchReturns(w, out, ok) ==
    LET t == run.th[w]
        r == [run EXCEPT !.th[w] = IdleThread,
                         !.returned[t.page] = Some(out),
                         !.ok = IF ok THEN @ \cup {t.page} ELSE @]
    IN IF w = 0
       THEN /\ run' = r
            /\ all_listings' = all_listings \o out
            /\ pc' = "pool"
       ELSE /\ run' = [r EXCEPT !.futures = @ \cup {[page |-> t.page, out |-> out]}]
            /\ UNCHANGED <<all_listings, pc>>

\* ex.submit for pages 2..max_pages: an idle thread of the pool takes the
\* next page of the queue
TakePage(w) ==
    /\ pc = "pool" /\ w # 0
    /\ run.th[w].pc = "idle"
    /\ run.next <= MaxPages
    /\ run' = [run EXCEPT !.th[w] = [IdleThread EXCEPT !.pc = "post",
                                                      !.page = run.next],
                          !.next = @ + 1]
    /\ UNCHANGED <<pc, seen_ids, all_listings>>
    /\ WorkersFrame

\* the three attempts of session.post, which touch nothing the threads
\* share: "ok" when one of them is answered, and the filter follows; "failed"
\* when each ends with status 419 or an exception, and [] is returned
PostPage(w, answer) ==
    /\ run.th[w].pc = "post"
    /\ IF answer = "ok"
       THEN /\ run' = [run EXCEPT !.th[w].pc = "lock"]
            /\ UNCHANGED <<pc, all_listings>>
       ELSE FetchReturns(w, <<>>, FALSE)
    /\ UNCHANGED seen_ids
    /\ WorkersFrame

\* variant: no mutual exclusion
MayAcquireAlways(lock) == TRUE

\* with self.lock: the lock is free
MayAcquire(lock) == lock = None

Acquire(w) ==
    /\ run.th[w].pc = "lock"
    /\ MayAcquire(run.lock)
    /\ run' = [run EXCEPT !.lock = Some(w), !.th[w].pc = "check", !.th[w].k = 1]
    /\ UNCHANGED <<pc, seen_ids, all_listings>>
    /\ WorkersFrame

\* for item in arr: if key and key not in self.seen
CheckItem(w) ==
    LET t == run.th[w]
        arr == cur_site.pages[t.page]
    IN /\ t.pc = "check"
       /\ IF t.k > Len(arr)
          THEN run' = [run EXCEPT !.th[w].pc = "unlock"]
          ELSE run' = [run EXCEPT !.th[w].pc = "add",
                                  !.th[w].fresh =
                                      /\ ItemKey(arr[t.k]) # None
                                      /\ ItemKey(arr[t.k])[1] \notin seen_ids]
       /\ UNCHANGED <<pc, seen_ids, all_listings>>
       /\ WorkersFrame

\* self.seen.add(key); out.append(item)
AddItem(w) ==
    LET t == run.th[w]
        arr == cur_site.pages[t.page]
    IN /\ t.pc = "add"
       /\ seen_ids' = IF t.fresh THEN seen_ids \cup {ItemKey(arr[t.k])[1]}
                      ELSE seen_ids
       /\ run' = [run EXCEPT !.th[w].pc = IF t.k + 1 > Len(arr) THEN "unlock"
                                           ELSE "check",
                             !.th[w].k = @ + 1,
                             !.th[w].out = IF t.fresh THEN Append(@, arr[t.k])
                                           ELSE @]
       /\ UNCHANGED <<pc, all_listings>>
       /\ WorkersFrame

\* the end of the with block, and return out
ReleaseAndReturn(w) ==
    /\ run.th[w].pc = "unlock"
    /\ \E r \in {[run EXCEPT !.lock = None]} :
          LET t == r.th[w]
              r2 == [r EXCEPT !.th[w] = IdleThread,
                              !.returned[t.page] = Some(t.out),
                              !.ok = @ \cup {t.page}]
          IN IF w = 0
             THEN /\ run' = r2
                  /\ all_listings' = all_listings \o t.out
                  /\ pc' = "pool"
             ELSE /\ run' = [r2 EXCEPT !.futures =
                                @ \cup {[page |-> t.page, out |-> t.out]}]
                  /\ UNCHANGED <<all_listings, pc>>
    /\ UNCHANGED seen_ids
    /\ WorkersFrame

\* for fut in as_completed(futures): all_items.extend(fut.result())
Collect(f) ==
    /\ pc = "pool"
    /\ f \in run.futures
    /\ run' = [run EXCEPT !.futures = @ \ {f}]
    /\ all_listings' = all_listings \o f.out
    /\ UNCHANGED <<pc, seen_ids>>
    /\ WorkersFrame

\* every future was collected: the pool is closed
PoolDone ==
    /\ pc = "pool"
    /\ run.next > MaxPages
    /\ run.futures = {}
    /\ \A w \in Threads : run.th[w].pc = "idle"
    /\ pc' = "done"
    /\ UNCHANGED <<run, seen_ids, all_listings>>
    /\ WorkersFrame

WorkersNext ==
    \/ \E w \in Threads : TakePage(w)
    \/ \E w \in Threads, answer \in {"ok", "failed"} : PostPage(w, answer)
    \/ \E w \in Threads : Acquire(w)
    \/ \E w \in Threads : CheckItem(w)
    \/ \E w \in Threads : AddItem(w)
    \/ \E w \in Threads : ReleaseAndReturn(w)
    \/ \E f \in run.futures : Collect(f)
    \/ PoolDone

SpecWorkers == WorkersInit /\ [][WorkersNext]_vars

KeysOfItems(items) ==
    {ItemKey(items[i])[1] : i \in {j \in 1..Len(items) : ItemKey(items[j]) # None}}

NoDuplicateKeys(items) ==
    \A i, j \in 1..Len(items) :
       (ItemKey(items[i]) # None /\ ItemKey(items[i]) = ItemKey(items[j])) => i = j

\* C30: no key is returned by two _fetch_page calls, the combined list has
\* no duplicate key and no item without key, and at the end its keys are
\* the keys of the pages that were fetched, whatever the order in which the
\* threads ran.
C30_NoKeyReturnedTwice ==
    /\ \A p, q \in 1..MaxPages :
          (run.returned[p] # None /\ run.returned[q] # None /\ p # q) =>
             KeysOfItems(run.returned[p][1]) \cap KeysOfItems(run.returned[q][1]) = {}
    /\ \A p \in 1..MaxPages :
          run.returned[p] # None => NoDuplicateKeys(run.returned[p][1])
    /\ NoDuplicateKeys(all_listings)
    /\ \A i \in 1..Len(all_listings) : ItemKey(all_listings[i]) # None
    /\ pc = "done" =>
          KeysOfItems(all_listings) =
             UNION {KeysOfItems(cur_site.pages[p]) : p \in run.ok}

\* pages 2 and 3 were fetched on two threads and page 3 took the lock first:
\* the key k1 was returned for page 3, with the item that has it as slug,
\* and for page 2 nothing was left
C30_Witness ==
    /\ pc = "done"
    /\ cur_site.pages[1] = <<ItemNoKey, ItemK2>>
    /\ cur_site.pages[2] = <<ItemK1, ItemK2>>
    /\ cur_site.pages[3] = <<ItemK1Slug, ItemK1>>
    /\ run.returned[2] = Some(<<>>)
    /\ run.returned[3] = Some(<<ItemK1Slug>>)
    /\ {1, 2, 3} \subseteq run.ok

====
